---- MODULE Spec2Model ----
(***************************************************************************)
(* Customer-support message pipeline of the Kerala Sellers support app:    *)
(* language detection, intent classification, response generation (LLM or  *)
(* template), and the conversation escalation lifecycle.                   *)
(*                                                                         *)
(* Texts are sequences of Unicode code points, so that the character       *)
(* scans, the case folding and the substring tests of the source are       *)
(* computed rather than assumed.  Optional (nullable) fields are           *)
(* sequences of length 0 or 1: None is <<>>, a value v is <<v>>.           *)
(* Confidence scores are kept in tenths (1.0 is 10, 0.5 is 5).             *)
(***************************************************************************)
EXTENDS Integers, Sequences, FiniteSets, TLC

None == <<>>
Some(v) == <<v>>

(***************************************************************************)
(* Text helpers (Python str operations used by the source).                *)
(***************************************************************************)

\* str.lower() on one character: ASCII capitals fold; Malayalam has no
\* case, and the long s (U+017F) and the dotless i (U+0131) are small letters
Lower(c) == IF c \in 65..90 THEN c + 32 ELSE c

lower(s) == [i \in 1..Len(s) |-> Lower(s[i])]

IsSpace(c) == c \in {9, 10, 11, 12, 13, 32}

\* `not text or not text.strip()`
Blank(text) == \A i \in 1..Len(text) : IsSpace(text[i])

\* str.strip(): drop leading and trailing whitespace
strip(s) ==
    IF Blank(s) THEN <<>>
    ELSE LET first == CHOOSE i \in 1..Len(s) :
                         /\ ~IsSpace(s[i])
                         /\ \A j \in 1..(i - 1) : IsSpace(s[j])
             last  == CHOOSE i \in 1..Len(s) :
                         /\ ~IsSpace(s[i])
                         /\ \A j \in (i + 1)..Len(s) : IsSpace(s[j])
         IN  SubSeq(s, first, last)

\* `kw in s` (substring containment)
Contains(kw, s) ==
    \E i \in 0..(Len(s) - Len(kw)) : SubSeq(s, i + 1, i + Len(kw)) = kw

RECURSIVE Concat(_)
Concat(parts) ==
    IF parts = <<>> THEN <<>> ELSE Head(parts) \o Concat(Tail(parts))

(***************************************************************************)
(* support/utils/language.py                                               *)
(***************************************************************************)

\* Malayalam block 0x0D00..0x0D7F, ZWNJ/ZWJ 0x200C..0x200D
malayalam_ranges == << <<3328, 3455>>, <<8204, 8205>> >>

\* IsMalayalam, but with the ends of each range left out
IsMalayalam_exclusive(c) ==
    \E r \in 1..Len(malayalam_ranges) :
        malayalam_ranges[r][1] < c /\ c < malayalam_ranges[r][2]

IsMalayalam(c) ==
    \E r \in 1..Len(malayalam_ranges) :
        malayalam_ranges[r][1] <= c /\ c <= malayalam_ranges[r][2]

IsAsciiLetter(c) == (65 <= c /\ c <= 90) \/ (97 <= c /\ c <= 122)

detect_language(text) ==
    IF Blank(text) THEN "en"
    ELSE LET has_malayalam     == \E i \in 1..Len(text) : IsMalayalam(text[i])
             has_ascii_letters == \E i \in 1..Len(text) : IsAsciiLetter(text[i])
         IN  IF has_malayalam /\ has_ascii_letters THEN "mixed"
             ELSE IF has_malayalam THEN "ml"
             ELSE "en"

determine_response_language(conversation, detected_language) ==
    IF detected_language \in {"en", "ml"} THEN detected_language
    ELSE IF conversation.language # "" THEN conversation.language ELSE "en"

(***************************************************************************)
(* support/utils/intent.py                                                 *)
(***************************************************************************)

INTENT_KEYWORDS ==
  [ order_status |-> [
      en |-> <<
        \* order; track; delivery; shipped; status; where
            <<111, 114, 100, 101, 114>>,
            <<116, 114, 97, 99, 107>>,
            <<100, 101, 108, 105, 118, 101, 114, 121>>,
            <<115, 104, 105, 112, 112, 101, 100>>,
            <<115, 116, 97, 116, 117, 115>>,
            <<119, 104, 101, 114, 101>> >>,
      ml |-> <<
        \* (Malayalam, 4 code points); (Malayalam, 8 code points); (Malayalam, 7 code points); (Malayalam, 7 code points); (Malayalam, 6 code points); (Malayalam, 9 code points)
            <<3347, 3452, 3361, 3452>>,
            <<3359, 3405, 3376, 3390, 3349, 3405, 3349, 3405>>,
            <<3361, 3398, 3378, 3391, 3381, 3377, 3391>>,
            <<3342, 3364, 3405, 3364, 3391, 3375, 3403>>,
            <<3384, 3405, 3365, 3391, 3364, 3391>>,
            <<3342, 3381, 3391, 3359, 3398, 3375, 3390, 3363, 3405>> >> ],
    return_refund |-> [
      en |-> <<
        \* return; refund; replace; damaged; cancel
            <<114, 101, 116, 117, 114, 110>>,
            <<114, 101, 102, 117, 110, 100>>,
            <<114, 101, 112, 108, 97, 99, 101>>,
            <<100, 97, 109, 97, 103, 101, 100>>,
            <<99, 97, 110, 99, 101, 108>> >>,
      ml |-> <<
        \* (Malayalam, 7 code points); (Malayalam, 7 code points); (Malayalam, 6 code points); (Malayalam, 7 code points); (Malayalam, 7 code points)
            <<3377, 3391, 3359, 3405, 3359, 3399, 3450>>,
            <<3377, 3392, 3371, 3363, 3405, 3359, 3405>>,
            <<3364, 3391, 3376, 3391, 3349, 3398>>,
            <<3368, 3382, 3391, 3354, 3405, 3354, 3393>>,
            <<3349, 3405, 3375, 3390, 3451, 3384, 3453>> >> ],
    policy |-> [
      en |-> <<
        \* policy; rules; terms; conditions
            <<112, 111, 108, 105, 99, 121>>,
            <<114, 117, 108, 101, 115>>,
            <<116, 101, 114, 109, 115>>,
            <<99, 111, 110, 100, 105, 116, 105, 111, 110, 115>> >>,
      ml |-> <<
        \* (Malayalam, 3 code points); (Malayalam, 6 code points); (Malayalam, 8 code points); (Malayalam, 9 code points)
            <<3368, 3375, 3330>>,
            <<3368, 3375, 3353, 3405, 3353, 3454>>,
            <<3368, 3391, 3375, 3374, 3353, 3405, 3353, 3454>>,
            <<3381, 3405, 3375, 3381, 3384, 3405, 3365, 3349, 3454>> >> ],
    escalation |-> [
      en |-> <<
        \* complaint; talk to agent; human; support executive; escalate
            <<99, 111, 109, 112, 108, 97, 105, 110, 116>>,
            <<116, 97, 108, 107, 32, 116, 111, 32, 97, 103, 101, 110, 116>>,
            <<104, 117, 109, 97, 110>>,
            <<115, 117, 112, 112, 111, 114, 116, 32, 101, 120, 101, 99, 117, 116, 105, 118, 101>>,
            <<101, 115, 99, 97, 108, 97, 116, 101>> >>,
      ml |-> <<
        \* (Malayalam, 5 code points); (Malayalam, 7 code points); (Malayalam, 10 code points); (Malayalam, 13 code points); (Malayalam, 16 code points); (Malayalam, 10 code points)
            <<3370, 3376, 3390, 3364, 3391>>,
            <<3374, 3368, 3393, 3383, 3405, 3375, 3451>>,
            <<3374, 3368, 3393, 3383, 3405, 3375, 3368, 3403, 3359, 3405>>,
            <<3349, 3384, 3405, 3377, 3405, 3377, 3374, 3452, 32, 3349, 3398, 3375, 3452>>,
            <<3349, 3384, 3405, 3377, 3405, 3377, 3374, 3452, 32, 3349, 3398, 3375, 3377, 3391, 3368, 3398>>,
            <<3342, 3384, 3405, 3349, 3378, 3399, 3377, 3405, 3377, 3405>> >> ] ]

\* one `for keyword in ...: if keyword.lower() in text_lower` loop
MatchesIntent(intent, language, text_lower) ==
    LET keywords == INTENT_KEYWORDS[intent][language]
    IN  \E k \in 1..Len(keywords) : Contains(lower(keywords[k]), text_lower)

\* language.lower() on a language identifier
language_lower(language) ==
    IF language = "EN" THEN "en" ELSE IF language = "ML" THEN "ml" ELSE language

detect_intent(text, language) ==
    IF Blank(text) THEN "general"
    ELSE LET lang       == IF language_lower(language) \in {"en", "ml"}
                           THEN language_lower(language) ELSE "en"
             text_lower == lower(text)
         IN  IF MatchesIntent("escalation", lang, text_lower) THEN "escalation"
             ELSE IF MatchesIntent("policy", lang, text_lower) THEN "policy"
             ELSE IF MatchesIntent("return_refund", lang, text_lower) THEN "return_refund"
             ELSE IF MatchesIntent("order_status", lang, text_lower) THEN "order_status"
             ELSE "general"

(***************************************************************************)
(* support/utils/responses.py                                              *)
(* A template is a sequence of parts: a literal (ph = "") or a named       *)
(* placeholder.                                                            *)
(***************************************************************************)

templates ==
  [ en |-> [
      \* Your order is currently {status}. Expected delivery: {date}.
      order_status |-> <<
          [ph |-> "", lit |-> <<89, 111, 117, 114, 32, 111, 114, 100, 101, 114, 32, 105, 115, 32, 99, 117, 114, 114, 101, 110, 116, 108, 121, 32>>],
          [ph |-> "status", lit |-> <<>>],
          [ph |-> "", lit |-> <<46, 32, 69, 120, 112, 101, 99, 116, 101, 100, 32, 100, 101, 108, 105, 118, 101, 114, 121, 58, 32>>],
          [ph |-> "date", lit |-> <<>>],
          [ph |-> "", lit |-> <<46>>] >>,
      \* You can request a return within 7 days of delivery.
      return_refund |-> <<
          [ph |-> "", lit |-> <<89, 111, 117, 32, 99, 97, 110, 32, 114, 101, 113, 117, 101, 115, 116, 32, 97, 32, 114, 101, 116, 117, 114, 110, 32, 119, 105, 116, 104, 105, 110, 32, 55, 32, 100, 97, 121, 115, 32, 111, 102, 32, 100, 101, 108, 105, 118, 101, 114, 121, 46>>] >>,
      \* Here is our {policy_type} policy.
      policy |-> <<
          [ph |-> "", lit |-> <<72, 101, 114, 101, 32, 105, 115, 32, 111, 117, 114, 32>>],
          [ph |-> "policy_type", lit |-> <<>>],
          [ph |-> "", lit |-> <<32, 112, 111, 108, 105, 99, 121, 46>>] >>,
      \* I am connecting you to a support executive.
      escalation |-> <<
          [ph |-> "", lit |-> <<73, 32, 97, 109, 32, 99, 111, 110, 110, 101, 99, 116, 105, 110, 103, 32, 121, 111, 117, 32, 116, 111, 32, 97, 32, 115, 117, 112, 112, 111, 114, 116, 32, 101, 120, 101, 99, 117, 116, 105, 118, 101, 46>>] >>,
      \* How can I help you today?
      general |-> <<
          [ph |-> "", lit |-> <<72, 111, 119, 32, 99, 97, 110, 32, 73, 32, 104, 101, 108, 112, 32, 121, 111, 117, 32, 116, 111, 100, 97, 121, 63>>] >> ],
    ml |-> [
      \* (Malayalam, 35 code points)
      order_status |-> <<
          [ph |-> "", lit |-> <<3368, 3391, 3353, 3405, 3353, 3379, 3393, 3359, 3398, 32, 3347, 3452, 3361, 3452, 32, 3368, 3391, 3378, 3381, 3391, 3453, 32>>],
          [ph |-> "status", lit |-> <<>>],
          [ph |-> "", lit |-> <<32, 3334, 3363, 3405, 46>>] >>,
      \* (Malayalam, 57 code points)
      return_refund |-> <<
          [ph |-> "", lit |-> <<3361, 3398, 3378, 3391, 3381, 3377, 3391, 32, 3349, 3380, 3391, 3358, 3405, 3358, 3405, 32, 55, 32, 3366, 3391, 3381, 3384, 3364, 3405, 3364, 3391, 3368, 3393, 3379, 3405, 3379, 3391, 3453, 32, 3377, 3391, 3359, 3405, 3359, 3399, 3450, 32, 3333, 3373, 3405, 3375, 3452, 3364, 3405, 3365, 3391, 3349, 3405, 3349, 3390, 3330, 46>>] >>,
      \* (Malayalam, 24 code points)
      policy |-> <<
          [ph |-> "policy_type", lit |-> <<>>],
          [ph |-> "", lit |-> <<32, 3368, 3375, 3330, 32, 3335, 3364, 3390, 3363, 3405, 46>>] >>,
      \* (Malayalam, 45 code points)
      escalation |-> <<
          [ph |-> "", lit |-> <<3368, 3391, 3353, 3405, 3353, 3379, 3398, 32, 3349, 3384, 3405, 3377, 3405, 3377, 3374, 3452, 32, 3349, 3398, 3375, 3377, 3393, 3374, 3390, 3375, 3391, 32, 3372, 3368, 3405, 3367, 3391, 3370, 3405, 3370, 3391, 3349, 3405, 3349, 3393, 3368, 3405, 3368, 3393, 46>>] >>,
      \* (Malayalam, 34 code points)
      general |-> <<
          [ph |-> "", lit |-> <<3342, 3368, 3391, 3349, 3405, 3349, 3405, 32, 3368, 3391, 3353, 3405, 3353, 3379, 3398, 32, 3342, 3353, 3405, 3353, 3368, 3398, 32, 3384, 3385, 3390, 3375, 3391, 3349, 3405, 3349, 3390, 3330, 63>>] >> ] ]

\* status: being processed / (Malayalam, 20 code points)
default_status_en == <<98, 101, 105, 110, 103, 32, 112, 114, 111, 99, 101, 115, 115, 101, 100>>
default_status_ml == <<3370, 3405, 3376, 3403, 3384, 3384, 3405, 3384, 3405, 32, 3354, 3398, 3375, 3405, 3375, 3393, 3368, 3405, 3368, 3393>>
\* date: soon / (Malayalam, 3 code points)
default_date_en == <<115, 111, 111, 110>>
default_date_ml == <<3337, 3359, 3451>>
\* policy_type: general / (Malayalam, 7 code points)
default_policy_type_en == <<103, 101, 110, 101, 114, 97, 108>>
default_policy_type_ml == <<3370, 3402, 3364, 3393, 3381, 3390, 3375>>

default_context(language) ==
    [ status      |-> IF language = "en" THEN default_status_en ELSE default_status_ml,
      date        |-> IF language = "en" THEN default_date_en ELSE default_date_ml,
      policy_type |-> IF language = "en" THEN default_policy_type_en
                      ELSE default_policy_type_ml ]

\* the text of a placeholder left in place, "{name}"
placeholder_text ==
    [ status      |-> <<123, 115, 116, 97, 116, 117, 115, 125>>,
      date        |-> <<123, 100, 97, 116, 101, 125>>,
      policy_type |-> <<123, 112, 111, 108, 105, 99, 121, 95, 116, 121, 112, 101, 125>> ]

\* template.format(**full_context); a KeyError returns the template itself
format(template, full_context) ==
    IF \E p \in 1..Len(template) :
           template[p].ph # "" /\ template[p].ph \notin DOMAIN full_context
    THEN Concat([p \in 1..Len(template) |->
                    IF template[p].ph = "" THEN template[p].lit
                    ELSE placeholder_text[template[p].ph]])
    ELSE Concat([p \in 1..Len(template) |->
                    IF template[p].ph = "" THEN template[p].lit
                    ELSE full_context[template[p].ph]])

generate_response(intent, language, context) ==
    LET lang_templates == IF language \in DOMAIN templates THEN templates[language]
                          ELSE templates["en"]
        template       == IF intent \in DOMAIN lang_templates THEN lang_templates[intent]
                          ELSE lang_templates["general"]
        defaults       == default_context(language)
        full_context   == [k \in (DOMAIN defaults) \cup (DOMAIN context) |->
                              IF k \in DOMAIN context THEN context[k] ELSE defaults[k]]
    IN  format(template, full_context)

(***************************************************************************)
(* support/services/llm.py                                                 *)
(*                                                                         *)
(* A provider outcome is what the external API does for one call:          *)
(*   kind = "error"  the client library raises (network error, timeout,    *)
(*                   bad key, library not installed);                      *)
(*   kind = "reply"  a completion with its content (None when the API      *)
(*                   sends no content) and its finish/stop reason;         *)
(*   kind = "mock"   the index random.choice picks in the mock generator;  *)
(*   kind = "none"   no provider is called (unknown provider identifier).  *)
(***************************************************************************)

mock_responses_ml ==
    << <<3364, 3390, 3353, 3405, 3349, 3379, 3393, 3359, 3398, 32, 3354, 3403, 3366, 3405, 3375, 3364, 3405, 3364, 3391, 3368, 3405, 32, 3368, 3368, 3405, 3366, 3391, 46, 32, 3342, 3368, 3405, 3364, 3398, 3353, 3405, 3349, 3391, 3378, 3393, 3330, 32, 3374, 3377, 3405, 3377, 3405, 32, 3384, 3385, 3390, 3375, 3330, 32, 3334, 3381, 3382, 3405, 3375, 3374, 3393, 3363, 3405, 3359, 3403, 63>>,
       <<3381, 3391, 3381, 3376, 3353, 3405, 3353, 3454, 3349, 3405, 3349, 3405, 32, 3368, 3368, 3405, 3366, 3391, 46, 32, 3335, 3368, 3391, 3375, 3393, 3330, 32, 3342, 3368, 3405, 3364, 3398, 3353, 3405, 3349, 3391, 3378, 3393, 3330, 32, 3384, 3330, 3382, 3375, 3374, 3393, 3363, 3405, 3359, 3398, 3353, 3405, 3349, 3391, 3453, 32, 3354, 3403, 3366, 3391, 3349, 3405, 3349, 3393, 3349, 46>>,
       <<3384, 3385, 3390, 3375, 3364, 3405, 3364, 3391, 3368, 3405, 32, 3364, 3390, 3353, 3405, 3349, 3379, 3398, 32, 3384, 3368, 3405, 3364, 3403, 3383, 3364, 3405, 3364, 3403, 3359, 3398, 32, 3384, 3405, 3381, 3390, 3351, 3364, 3330, 32, 3354, 3398, 3375, 3405, 3375, 3393, 3368, 3405, 3368, 3393, 46>> >>

mock_responses_en ==
    << <<84, 104, 97, 110, 107, 32, 121, 111, 117, 32, 102, 111, 114, 32, 121, 111, 117, 114, 32, 113, 117, 101, 115, 116, 105, 111, 110, 46, 32, 73, 115, 32, 116, 104, 101, 114, 101, 32, 97, 110, 121, 116, 104, 105, 110, 103, 32, 101, 108, 115, 101, 32, 73, 32, 99, 97, 110, 32, 104, 101, 108, 112, 32, 121, 111, 117, 32, 119, 105, 116, 104, 63>>,
       <<84, 104, 97, 110, 107, 115, 32, 102, 111, 114, 32, 116, 104, 101, 32, 105, 110, 102, 111, 114, 109, 97, 116, 105, 111, 110, 46, 32, 76, 101, 116, 32, 109, 101, 32, 107, 110, 111, 119, 32, 105, 102, 32, 121, 111, 117, 32, 104, 97, 118, 101, 32, 97, 110, 121, 32, 111, 116, 104, 101, 114, 32, 113, 117, 101, 115, 116, 105, 111, 110, 115, 46>>,
       <<73, 39, 109, 32, 104, 97, 112, 112, 121, 32, 116, 111, 32, 104, 101, 108, 112, 32, 121, 111, 117, 46, 32, 80, 108, 101, 97, 115, 101, 32, 102, 101, 101, 108, 32, 102, 114, 101, 101, 32, 116, 111, 32, 97, 115, 107, 32, 105, 102, 32, 121, 111, 117, 32, 110, 101, 101, 100, 32, 97, 110, 121, 32, 97, 115, 115, 105, 115, 116, 97, 110, 99, 101, 46>> >>

Outcome(kind, content, finish, choice) ==
    [kind |-> kind, content |-> content, finish |-> finish, choice |-> choice]

\* (response_text, confidence) of one provider call
CallResult(response_text, confidence) ==
    [response_text |-> response_text, confidence |-> confidence]

_call_openai_api(outcome) ==
    IF outcome.kind = "reply" /\ outcome.content # None
    THEN CallResult(Some(strip(outcome.content[1])),
                    IF outcome.finish = "stop" THEN 10 ELSE 7)
    ELSE CallResult(None, 0)   \* except ImportError / except Exception

\* _call_anthropic_api, but testing the stop reason against OpenAI's "stop"
_call_anthropic_api_by_stop(outcome) ==
    IF outcome.kind = "reply" /\ outcome.content # None
    THEN CallResult(Some(strip(outcome.content[1])),
                    IF outcome.finish = "stop" THEN 10 ELSE 7)
    ELSE CallResult(None, 0)

_call_anthropic_api(outcome) ==
    IF outcome.kind = "reply" /\ outcome.content # None
    THEN CallResult(Some(strip(outcome.content[1])),
                    IF outcome.finish = "end_turn" THEN 10 ELSE 7)
    ELSE CallResult(None, 0)

_call_mock_api(language, outcome) ==
    LET responses == IF language = "ml" THEN mock_responses_ml ELSE mock_responses_en
    IN  CallResult(Some(responses[outcome.choice]), 8)

(***************************************************************************)
(* llm.py: PII_PATTERNS and _sanitize_prompt.  The four regular            *)
(* expressions are modelled by what the re module matches with them:       *)
(* character classes \d, \w and \s, the word boundary \b, greedy           *)
(* quantifiers with backtracking, and finditer's leftmost non-overlapping  *)
(* scan.  A span is <<start, end>>, 0-based and half-open as match.start() *)
(* and match.end() are.                                                    *)
(***************************************************************************)

\* \d: ASCII digits and the Malayalam digits
IsDigit(c) == c \in 48..57 \/ c \in 3430..3439

\* \w: alphanumeric characters and the underscore
IsWord(c) ==
    \/ c \in 48..57 \/ c \in 65..90 \/ c = 95 \/ c \in 97..122
    \/ c \in 3332..3340 \/ c \in 3342..3344 \/ c \in 3346..3386
    \/ c = 3389 \/ c = 3406 \/ c \in 3412..3414 \/ c \in 3416..3425
    \/ c \in 3430..3448 \/ c \in 3450..3455

\* \s
IsReSpace(c) == c \in 9..13 \/ c \in 28..32 \/ c = 133 \/ c = 160

\* [A-Za-z0-9._%+-]
IsEmailLocal(c) ==
    c \in 48..57 \/ c \in 65..90 \/ c \in 97..122 \/ c \in {46, 95, 37, 43, 45}

\* [A-Za-z0-9.-]
IsEmailDomain(c) ==
    c \in 48..57 \/ c \in 65..90 \/ c \in 97..122 \/ c \in {46, 45}

\* [A-Z|a-z]
IsEmailTld(c) == c \in 65..90 \/ c \in 97..122 \/ c = 124

\* \b between s[i] and s[i+1] (1-based), the outside of s being non-word
WordAt(s, i) == i >= 1 /\ i <= Len(s) /\ IsWord(s[i])

Boundary(s, i) == WordAt(s, i) # WordAt(s, i + 1)

\* s[a+1 .. b] is inside s and every character satisfies the class
AllDigits(s, a, b) == b <= Len(s) /\ \A k \in (a + 1)..b : IsDigit(s[k])

\* \b\d{10}\b matched at offset i
PhoneAt(s, i) ==
    Boundary(s, i) /\ AllDigits(s, i, i + 10) /\ Boundary(s, i + 10)

phone_spans(s) == { <<i, i + 10>> : i \in {j \in 0..Len(s) : PhoneAt(s, j)} }

\* \b\d{12,19}\b matched at offset i: the ends the greedy quantifier can stop at
LongEnds(s, i) ==
    { e \in (i + 12)..(i + 19) :
        Boundary(s, i) /\ AllDigits(s, i, e) /\ Boundary(s, e) }

long_spans(s) ==
    { <<i, CHOOSE e \in LongEnds(s, i) : \A f \in LongEnds(s, i) : f <= e>> :
        i \in {j \in 0..Len(s) : LongEnds(s, j) # {}} }

\* \s? after offset p
SkipSpace(s, p) == IF p + 1 <= Len(s) /\ IsReSpace(s[p + 1]) THEN p + 1 ELSE p

\* \b\d{4}\s?\d{4}\s?\d{4}\s?\d{4}\b matched at offset i: its end, or -1
CardEnd(s, i) ==
    LET b == SkipSpace(s, i + 4)
        c == SkipSpace(s, b + 4)
        d == SkipSpace(s, c + 4)
    IN  IF /\ Boundary(s, i)
           /\ AllDigits(s, i, i + 4) /\ AllDigits(s, b, b + 4)
           /\ AllDigits(s, c, c + 4) /\ AllDigits(s, d, d + 4)
           /\ Boundary(s, d + 4)
        THEN d + 4 ELSE -1

\* \b[A-Za-z0-9._%+-]+@[A-Za-z0-9.-]+\.[A-Z|a-z]{2,}\b matched at offset i:
\* where its local part can end (s[a + 1] is the '@'; at most one place)
EmailLocalEnds(s, i) ==
    IF Boundary(s, i)
    THEN { a \in (i + 1)..(Len(s) - 1) :
             /\ s[a + 1] = 64
             /\ \A k \in (i + 1)..a : IsEmailLocal(s[k]) }
    ELSE {}

\* the ends of its matches whose local part ends at a and domain part at d
EmailEnds(s, a, d) ==
    IF s[d + 1] = 46 /\ \A k \in (a + 2)..d : IsEmailDomain(s[k])
    THEN { e \in (d + 3)..Len(s) :
             /\ \A k \in (d + 2)..e : IsEmailTld(s[k])
             /\ Boundary(s, e) }
    ELSE {}

\* the match the backtracking engine reports: the longest domain part that
\* lets the rest match, then the longest top-level part; -1 when none
EmailEnd(s, i) ==
    LET as == EmailLocalEnds(s, i)
    IN  IF as = {} THEN -1
        ELSE LET a  == CHOOSE x \in as : TRUE
                 ds == { d \in (a + 2)..(Len(s) - 1) : EmailEnds(s, a, d) # {} }
             IN  IF ds = {} THEN -1
                 ELSE LET d  == CHOOSE x \in ds : \A y \in ds : y <= x
                          es == EmailEnds(s, a, d)
                      IN  CHOOSE e \in es : \A f \in es : f <= e

\* re.finditer: leftmost match at or after pos, then on from its end
RECURSIVE card_scan(_, _)
card_scan(s, pos) ==
    LET starts == { i \in pos..Len(s) : CardEnd(s, i) # -1 }
    IN  IF starts = {} THEN {}
        ELSE LET i == CHOOSE x \in starts : \A y \in starts : x <= y
             IN  { <<i, CardEnd(s, i)>> } \cup card_scan(s, CardEnd(s, i))

RECURSIVE email_scan(_, _)
email_scan(s, pos) ==
    LET starts == { i \in pos..Len(s) : EmailEnd(s, i) # -1 }
    IN  IF starts = {} THEN {}
        ELSE LET i == CHOOSE x \in starts : \A y \in starts : x <= y
             IN  { <<i, EmailEnd(s, i)>> } \cup email_scan(s, EmailEnd(s, i))

\* PII_PATTERNS in the order of the list; the spans each pattern matches
PII_PATTERNS(s) ==
    << email_scan(s, 0), phone_spans(s), card_scan(s, 0), long_spans(s) >>

REDACTED == <<91, 82, 69, 68, 65, 67, 84, 69, 68, 93>>

\* the list `replacements`, as triples <<start, end, pattern>>
replacements(s) ==
    UNION { { <<sp[1], sp[2], p>> : sp \in PII_PATTERNS(s)[p] } : p \in 1..4 }

\* Python's s[:n] and s[n:], which clamp n to the length of s
Prefix(s, n) == SubSeq(s, 1, IF n < Len(s) THEN n ELSE Len(s))

Suffix(s, n) == SubSeq(s, (IF n < Len(s) THEN n ELSE Len(s)) + 1, Len(s))

\* sorted(replacements, reverse=True), applied one after the other to the
\* string as the earlier replacements left it
RECURSIVE apply_replacements(_, _)
apply_replacements(sanitized, todo) ==
    IF todo = {} THEN sanitized
    ELSE LET r == CHOOSE x \in todo : \A y \in todo :
                      x[1] > y[1] \/ (x[1] = y[1] /\ x[2] >= y[2])
         IN  apply_replacements(
                 Prefix(sanitized, r[1]) \o REDACTED \o Suffix(sanitized, r[2]),
                 todo \ {r})

_sanitize_prompt(prompt) == apply_replacements(prompt, replacements(prompt))

\* LLM_MAX_TOKENS as the environment defaults it
LLM_MAX_TOKENS == 500

\* prompt[:max_chars] when the prompt is longer than max_tokens * 4
\* _truncate_prompt, but an ellipsis is appended to what was cut
_truncate_prompt_with_ellipsis(prompt, max_tokens) ==
    IF Len(prompt) <= max_tokens * 4 THEN prompt
    ELSE SubSeq(prompt, 1, max_tokens * 4) \o <<46, 46, 46>>

_truncate_prompt(prompt, max_tokens) ==
    IF Len(prompt) <= max_tokens * 4 THEN prompt
    ELSE SubSeq(prompt, 1, max_tokens * 4)

\* general_history, but the filter on the sender is missing
RECURSIVE general_history_any_sender(_)
general_history_any_sender(rows) ==
    IF rows = <<>> THEN <<>>
    ELSE IF Head(rows).query_type = "general"
         THEN <<Head(rows)>> \o general_history_any_sender(Tail(rows))
         ELSE general_history_any_sender(Tail(rows))

\* the rows of the conversation with query_type 'general' and sender user
\* or ai; rows are given in the order of their row ids
RECURSIVE general_history(_)
general_history(rows) ==
    IF rows = <<>> THEN <<>>
    ELSE IF Head(rows).query_type = "general" /\ Head(rows).sender \in {"user", "ai"}
         THEN <<Head(rows)>> \o general_history(Tail(rows))
         ELSE general_history(Tail(rows))

\* order_by('-created_at') names no second key, so rows with equal
\* created_at come back in the order the database's plan yields: ascending
\* row ids from a sorter, descending row ids from a backward index scan
TieOrders == {"rowid_asc", "rowid_desc"}

RECURSIVE insert_desc(_, _, _)
insert_desc(sorted, row, tie_order) ==
    IF sorted = <<>> THEN <<row>>
    ELSE IF \/ Head(sorted).created_at > row.created_at
            \/ Head(sorted).created_at = row.created_at /\ tie_order = "rowid_asc"
         THEN <<Head(sorted)>> \o insert_desc(Tail(sorted), row, tie_order)
         ELSE <<row>> \o sorted

\* .order_by('-created_at')
RECURSIVE order_by_created_at_desc(_, _)
order_by_created_at_desc(rows, tie_order) ==
    IF rows = <<>> THEN <<>>
    ELSE insert_desc(order_by_created_at_desc(SubSeq(rows, 1, Len(rows) - 1), tie_order),
                     rows[Len(rows)], tie_order)

\* [:10]
first_ten(rows) == IF Len(rows) <= 10 THEN rows ELSE SubSeq(rows, 1, 10)

\* messages.reverse()
reverse(rows) == [i \in 1..Len(rows) |-> rows[Len(rows) + 1 - i]]

\* "User: " and "Assistant: "
context_line(row) ==
    (IF row.sender = "user" THEN <<85, 115, 101, 114, 58, 32>>
     ELSE <<65, 115, 115, 105, 115, 116, 97, 110, 116, 58, 32>>) \o row.message

\* "\n".join(context_lines)
RECURSIVE join_lines(_)
join_lines(rows) ==
    IF rows = <<>> THEN <<>>
    ELSE IF Len(rows) = 1 THEN context_line(Head(rows))
    ELSE context_line(Head(rows)) \o <<10>> \o join_lines(Tail(rows))

\* conversation_rows: None when no conversation is passed, otherwise the
\* messages stored for it
_build_conversation_context(conversation_rows, tie_order) ==
    IF conversation_rows = None THEN <<>>
    ELSE LET rows == reverse(first_ten(order_by_created_at_desc(
                                           general_history(conversation_rows[1]), tie_order)))
         IN  IF rows = <<>> THEN <<>>
             ELSE join_lines(rows) \o <<10, 10>>

system_prompt_base ==
    <<89, 111, 117, 32, 97, 114, 101, 32, 97, 32, 112, 111, 108, 105, 116, 101, 32, 97, 110, 100, 32, 104, 101, 108, 112, 102, 117, 108, 32, 99, 117, 115, 116, 111, 109, 101, 114, 32, 115, 117, 112, 112, 111, 114, 116, 32, 97, 115, 115, 105, 115, 116, 97, 110, 116, 32, 102, 111, 114, 32, 75, 101, 114, 97, 108, 97, 32, 83, 101, 108, 108, 101, 114, 115, 46, 32, 82, 101, 115, 112, 111, 110, 100, 32, 105, 110, 32, 97, 32, 102, 114, 105, 101, 110, 100, 108, 121, 44, 32, 112, 114, 111, 102, 101, 115, 115, 105, 111, 110, 97, 108, 32, 109, 97, 110, 110, 101, 114, 46, 32, 75, 101, 101, 112, 32, 114, 101, 115, 112, 111, 110, 115, 101, 115, 32, 99, 111, 110, 99, 105, 115, 101, 32, 97, 110, 100, 32, 104, 101, 108, 112, 102, 117, 108, 46>>

system_prompt_ml == <<32, 82, 101, 115, 112, 111, 110, 100, 32, 105, 110, 32, 77, 97, 108, 97, 121, 97, 108, 97, 109, 32, 108, 97, 110, 103, 117, 97, 103, 101, 46>>

system_prompt_en == <<32, 82, 101, 115, 112, 111, 110, 100, 32, 105, 110, 32, 69, 110, 103, 108, 105, 115, 104, 32, 108, 97, 110, 103, 117, 97, 103, 101, 46>>

Prompts(system_prompt, user_prompt) ==
    [system_prompt |-> system_prompt, user_prompt |-> user_prompt]

\* user_prompt = context + "Customer: " + message + "\n\nAssistant:"
_prepare_prompts(user_message, language, conversation_context) ==
    Prompts(system_prompt_base \o
                (IF language = "ml" THEN system_prompt_ml ELSE system_prompt_en),
            conversation_context \o <<67, 117, 115, 116, 111, 109, 101, 114, 58, 32>> \o user_message \o <<10, 10, 65, 115, 115, 105, 115, 116, 97, 110, 116, 58>>)

\* the prompts generate_reply prepares before it calls the provider
prepared_prompts(user_message, language, conversation_rows, tie_order, max_tokens) ==
    LET sanitized_message == _sanitize_prompt(user_message)
        truncated_message == _truncate_prompt(sanitized_message, max_tokens)
        conversation_context ==
            IF conversation_rows = None THEN <<>>
            ELSE _sanitize_prompt(_build_conversation_context(conversation_rows, tie_order))
        prompts == _prepare_prompts(truncated_message, language, conversation_context)
    IN  Prompts(prompts.system_prompt, _truncate_prompt(prompts.user_prompt, max_tokens))

\* (response_text, confidence, used_fallback)
Reply(response_text, confidence, used_fallback) ==
    [response_text |-> response_text, confidence |-> confidence,
     used_fallback |-> used_fallback]

generate_reply(user_message, language, llm_provider, outcome) ==
    LET called ==
            IF llm_provider = "openai" THEN _call_openai_api(outcome)
            ELSE IF llm_provider = "anthropic" THEN _call_anthropic_api(outcome)
            ELSE IF llm_provider = "mock" THEN _call_mock_api(language, outcome)
            ELSE CallResult(None, 0)
    IN  IF called.response_text = None
        THEN Reply(generate_response("general", language, <<>>), 5, TRUE)
        ELSE Reply(called.response_text[1], called.confidence, FALSE)

(***************************************************************************)
(* Requests and external collaborators                                     *)
(***************************************************************************)

\* request texts: "", "Hello", "where", "HUMAN", "refund policy",
\* a Malayalam greeting, and "ok " followed by Malayalam letters
T_empty == <<>>
T_hello == <<72, 101, 108, 108, 111>>
T_where == <<119, 104, 101, 114, 101>>
T_human == <<72, 85, 77, 65, 78>>
T_policy == <<114, 101, 102, 117, 110, 100, 32, 112, 111, 108, 105, 99, 121>>
T_ml_hello == <<3385, 3378, 3403>>
T_mixed == <<111, 107, 32, 3368, 3375, 3330>>
T_space == <<32>>
T_padded == <<32, 79, 110, 32, 105, 116, 46, 32>>

\* "1234567812345678 bcdef1234567812345678" and "a@b.co 9876543210"
T_card_twice ==
    <<49, 50, 51, 52, 53, 54, 55, 56, 49, 50, 51, 52, 53, 54, 55, 56, 32, 98, 99, 100, 101, 102, 49, 50, 51, 52, 53, 54, 55, 56, 49, 50, 51, 52, 53, 54, 55, 56>>
T_email_phone == <<97, 64, 98, 46, 99, 111, 32, 57, 56, 55, 54, 53, 52, 51, 50, 49, 48>>

\* a request to the message endpoint: its `message`, `sender` and
\* `query_type` fields (query_type None: not given)
Request(message, sender, query_type) ==
    [message |-> message, sender |-> sender, query_type |-> query_type]

Requests ==
    { Request(T_empty, "user", None),
      Request(T_hello, "user", None),
      Request(T_where, "user", None),
      Request(T_human, "user", None),
      Request(T_policy, "user", None),
      Request(T_ml_hello, "user", None),
      Request(T_mixed, "user", None),
      Request(T_where, "user", Some("billing")),
      Request(T_hello, "agent", None) }

\* requests that end in an error response, among requests that succeed;
\* the sender "null" stands for a JSON null, which request.data.get('sender',
\* 'user') returns as None
ErrorRequests ==
    { Request(T_hello, "null", None),
      Request(T_human, "null", None),
      Request(T_empty, "user", None),
      Request(T_hello, "user", None),
      Request(T_hello, "agent", None) }

\* the requests of a customer who keeps chatting in one conversation
ChatRequests ==
    { Request(T_hello, "user", None),
      Request(T_where, "user", None),
      Request(T_ml_hello, "user", None),
      Request(T_mixed, "user", None),
      Request(T_card_twice, "user", None),
      Request(T_email_phone, "user", None) }

\* words the texts given to detect_intent are made of: "human", "HUMAN",
\* "Policy", "refund", "where", "hello", "status" written with a long s
\* (U+017F), "policy" written with a dotless i (U+0131), and the Malayalam
\* keywords for complaint, policy, refund and status
IntentWords ==
    {  <<104, 117, 109, 97, 110>>,
       <<72, 85, 77, 65, 78>>,
       <<80, 111, 108, 105, 99, 121>>,
       <<114, 101, 102, 117, 110, 100>>,
       <<119, 104, 101, 114, 101>>,
       <<104, 101, 108, 108, 111>>,
       <<383, 116, 97, 116, 117, 115>>,
       <<112, 111, 108, 305, 99, 121>>,
       <<3370, 3376, 3390, 3364, 3391>>,
       <<3368, 3375, 3330>>,
       <<3377, 3392, 3371, 3363, 3405, 3359, 3405>>,
       <<3384, 3405, 3365, 3391, 3364, 3391>> }

MaxIntentWords == 2

\* the texts of n words separated by one space
RECURSIVE TextsOfWords(_)
TextsOfWords(n) ==
    IF n = 1 THEN IntentWords
    ELSE { w \o <<32>> \o rest : w \in IntentWords, rest \in TextsOfWords(n - 1) }

IntentTexts ==
    {T_empty, T_space} \cup UNION { TextsOfWords(n) : n \in 1..MaxIntentWords }

\* the language argument: the three detections, and other identifiers
IntentLanguages == {"en", "ml", "mixed", "ML", "fr"}

\* characters around the edges of the Malayalam block, the joiners and the
\* ASCII letters, with a digit and a space
LanguageChars ==
    { 32, 49, 64, 65, 90, 91, 96, 97, 122, 123,
      3327, 3328, 3455, 3456, 8203, 8204, 8205, 8206 }

MaxLanguageTextLen == 2

RECURSIVE TextsOfLength(_)
TextsOfLength(n) ==
    IF n = 0 THEN { <<>> }
    ELSE { <<c>> \o rest : c \in LanguageChars, rest \in TextsOfLength(n - 1) }

LanguageTexts == UNION { TextsOfLength(n) : n \in 0..MaxLanguageTextLen }

\* texts sent to the agent endpoint and reasons sent to the escalate endpoint
AgentTexts == {T_empty, T_space, T_padded}
Reasons == {<<116, 111, 111, 32, 115, 108, 111, 119>>}
AgentIds == {"", "agent_123"}

\* the conversation of the model, and an id no conversation has
ConversationIds == {"conv", "unknown"}

\* Order.objects.filter(user_id=...).first(): no order, or its status and
\* estimated delivery date
Order(status, estimated_delivery) ==
    [status |-> status, estimated_delivery |-> estimated_delivery]

LatestOrders ==
    { None,
      Some(Order(<<100, 101, 108, 105, 118, 101, 114, 101, 100>>, None)),
      Some(Order(<<115, 104, 105, 112, 112, 101, 100>>, Some(<<50, 48, 50, 52, 45, 48, 49, 45, 49, 53>>))) }

\* Policy.objects.all(), ordered by policy_type: "refund", "shipping"
PolicyTypes == << <<114, 101, 102, 117, 110, 100>>, <<115, 104, 105, 112, 112, 105, 110, 103>> >>

\* LLM_PROVIDER as configured in the environment ("azure": not a known one)
Providers == {"openai", "anthropic", "mock", "azure"}

\* message.content of a completion: absent, "", or " On it. "
ReplyContents == {None, Some(T_empty), Some(T_padded)}

NoOutcome == Outcome("none", None, "", 0)

ProviderOutcomes(llm_provider) ==
    {Outcome("client_error", None, "", 0)} \cup
    ( IF llm_provider = "openai"
      THEN {Outcome("error", None, "", 0)} \cup
           {Outcome("reply", c, f, 0) : c \in ReplyContents, f \in {"stop", "length"}}
      ELSE IF llm_provider = "anthropic"
      THEN {Outcome("error", None, "", 0)} \cup
           {Outcome("reply", c, f, 0) : c \in ReplyContents, f \in {"end_turn", "max_tokens"}}
      ELSE IF llm_provider = "mock"
      THEN {Outcome("mock", None, "", k) : k \in 1..3}
      ELSE {NoOutcome} )

(***************************************************************************)
(* State                                                                   *)
(***************************************************************************)

MaxMessages == 2

\* rows a chat of two exchanges needs
MaxChatMessages == 4
MaxErrorMessages == 3

VARIABLES
    conversation,   \* the SupportConversation row
    messages,       \* its SupportMessage rows, in creation order
    provider,       \* LLM_PROVIDER of the process
    now,            \* clock read by timezone.now()
    pre,            \* the conversation row and message total before the last request
    last,           \* the last request and its response
    inflight,       \* per worker, the request it is processing and how far it got
    probe           \* a pure function under study: its arguments and its result

vars == <<conversation, messages, provider, now, pre, last, inflight, probe>>

\* SupportConversation.objects.create(user_id=..., language='en')
NewConversation ==
    [ language          |-> "en",
      message_count     |-> 0,
      escalated         |-> FALSE,
      escalation_reason |-> None,
      status            |-> "open",
      assigned_agent    |-> None,
      escalated_at      |-> None,
      resolved_at       |-> None,
      ended_at          |-> None ]

SupportMessage(sender, message, language_detected, query_type, ai_confidence) ==
    [ sender            |-> sender,
      message           |-> message,
      language_detected |-> language_detected,
      query_type        |-> query_type,
      ai_confidence     |-> ai_confidence ]

\* a request (endpoint, sender, text) and the response it got
Response(op, status_code) ==
    [ op                |-> op,
      status_code       |-> status_code,
      sender            |-> "",
      agent_id          |-> "",
      message           |-> <<>>,
      detected_language |-> "",
      response_language |-> "",
      detected_intent   |-> "",
      ai_response       |-> None,
      path              |-> "",
      used_fallback     |-> None,
      outcome           |-> NoOutcome,
      prompts           |-> None ]

Snapshot == [conversation |-> conversation, message_total |-> Len(messages)]

\* the workers that process requests, and a worker with no request
Workers == {1, 2}

Idle == [pc |-> "idle"]

NoProbe == [fn |-> "none"]

Init ==
    /\ conversation = NewConversation
    /\ messages = <<>>
    /\ provider \in Providers
    /\ now = 1
    /\ pre = [conversation |-> NewConversation, message_total |-> 0]
    /\ last = Response("create", 201)
    /\ inflight = [w \in Workers |-> Idle]
    /\ probe = NoProbe

(***************************************************************************)
(* support/views.py: SupportMessageView.post                               *)
(***************************************************************************)

\* update_conversation, but an escalation-intent message also writes the
\* status, whatever the status was
update_conversation_sets_status(conv, message_text, detected_language, detected_intent) ==
    LET c1 == IF conv.message_count = 0
              THEN [conv EXCEPT !.language = detected_language]
              ELSE IF detected_language # "mixed"
                   THEN [conv EXCEPT !.language = detected_language]
                   ELSE conv
        c2 == IF detected_intent = "escalation"
              THEN [c1 EXCEPT !.escalated = TRUE,
                              !.escalation_reason = Some(message_text),
                              !.status = "escalated"]
              ELSE c1
    IN  [c2 EXCEPT !.message_count = @ + 1]

\* update_conversation, but an escalation-intent message also stamps the
\* time of the escalation
update_conversation_stamps_escalation(conv, message_text, detected_language, detected_intent) ==
    LET c1 == IF conv.message_count = 0
              THEN [conv EXCEPT !.language = detected_language]
              ELSE IF detected_language # "mixed"
                   THEN [conv EXCEPT !.language = detected_language]
                   ELSE conv
        c2 == IF detected_intent = "escalation"
              THEN [c1 EXCEPT !.escalated = TRUE,
                              !.escalation_reason = Some(message_text),
                              !.escalated_at = Some(now)]
              ELSE c1
    IN  [c2 EXCEPT !.message_count = @ + 1]

\* update_conversation, but the language is overwritten by every detection,
\* a mixed one included
update_conversation_language_always(conv, message_text, detected_language, detected_intent) ==
    LET c1 == [conv EXCEPT !.language = detected_language]
        c2 == IF detected_intent = "escalation"
              THEN [c1 EXCEPT !.escalated = TRUE,
                              !.escalation_reason = Some(message_text)]
              ELSE c1
    IN  [c2 EXCEPT !.message_count = @ + 1]

\* update_conversation, but the escalation reason is written outside the
\* `if detected_intent == 'escalation'` block, for every message
update_conversation_reason_always(conv, message_text, detected_language, detected_intent) ==
    LET c1 == IF conv.message_count = 0
              THEN [conv EXCEPT !.language = detected_language]
              ELSE IF detected_language # "mixed"
                   THEN [conv EXCEPT !.language = detected_language]
                   ELSE conv
        c2 == IF detected_intent = "escalation"
              THEN [c1 EXCEPT !.escalated = TRUE,
                              !.escalation_reason = Some(message_text)]
              ELSE [c1 EXCEPT !.escalation_reason = Some(message_text)]
    IN  [c2 EXCEPT !.message_count = @ + 1]

\* "Update conversation language ...", "Handle escalation logic" and the
\* message_count increment that precede the first conversation.save()
update_conversation(conv, message_text, detected_language, detected_intent) ==
    LET c1 == IF conv.message_count = 0
              THEN [conv EXCEPT !.language = detected_language]
              ELSE IF detected_language # "mixed"
                   THEN [conv EXCEPT !.language = detected_language]
                   ELSE conv
        c2 == IF detected_intent = "escalation"
              THEN [c1 EXCEPT !.escalated = TRUE,
                              !.escalation_reason = Some(message_text)]
              ELSE c1
    IN  [c2 EXCEPT !.message_count = @ + 1]

\* first policy type (in table order) occurring in the message, or None
RECURSIVE first_policy_in(_, _)
first_policy_in(policy_types, message_text) ==
    IF policy_types = <<>> THEN None
    ELSE IF Contains(lower(Head(policy_types)), lower(message_text))
         THEN Some(Head(policy_types))
         ELSE first_policy_in(Tail(policy_types), message_text)

\* the context dict built for the deterministic templates
template_context(detected_intent, message_text, latest_order) ==
    IF detected_intent = "order_status"
    THEN IF latest_order = None THEN <<>>
         ELSE IF latest_order[1].estimated_delivery # None
              THEN [status |-> latest_order[1].status,
                    date   |-> latest_order[1].estimated_delivery[1]]
              ELSE [status |-> latest_order[1].status]
    ELSE IF detected_intent = "policy"
    THEN LET p == first_policy_in(PolicyTypes, message_text)
         IN  IF p = None THEN <<>> ELSE [policy_type |-> p[1]]
    ELSE <<>>

AiReply(text, confidence, path, used_fallback) ==
    [text |-> text, confidence |-> confidence, path |-> path,
     used_fallback |-> used_fallback]

\* ai_reply, but the LLM is used only when a known provider is configured
ai_reply_by_configuration(detected_intent, message_text, response_language, latest_order, llm_provider, outcome) ==
    IF detected_intent = "general"
       /\ llm_provider \in {"openai", "anthropic", "mock"}
    THEN IF outcome.kind = "client_error"
         THEN AiReply(generate_response("general", response_language, <<>>),
                      5, "except", None)
         ELSE LET r == generate_reply(message_text, response_language,
                                      llm_provider, outcome)
              IN  AiReply(r.response_text, r.confidence, "llm",
                          Some(r.used_fallback))
    ELSE AiReply(generate_response(detected_intent, response_language,
                     template_context(detected_intent, message_text, latest_order)),
                 10, "template", None)

\* "Generate AI response if the message is from a user": the text and the
\* confidence of the reply, and the path that produced it
ai_reply(detected_intent, message_text, response_language, latest_order, llm_provider, outcome) ==
    IF detected_intent = "general"
    THEN IF outcome.kind = "client_error"
         THEN \* except Exception around get_llm_client() / generate_reply
              AiReply(generate_response("general", response_language, <<>>),
                      5, "except", None)
         ELSE LET r == generate_reply(message_text, response_language,
                                      llm_provider, outcome)
              IN  AiReply(r.response_text, r.confidence, "llm",
                          Some(r.used_fallback))
    ELSE AiReply(generate_response(detected_intent, response_language,
                     template_context(detected_intent, message_text, latest_order)),
                 10, "template", None)

\* llm_client.generate_reply(message_text, response_language): the view
\* passes no conversation.  The prompts an external provider is called
\* with, or None when no external provider is called.
prompts_sent(message_text, response_language, llm_provider) ==
    IF llm_provider \in {"openai", "anthropic"}
    THEN Some(prepared_prompts(message_text, response_language, None, "rowid_asc", LLM_MAX_TOKENS))
    ELSE None

\* Order.objects.filter(...).first() runs only on the order_status branch,
\* the provider only on the general branch, both only for a user message
OrdersLookedUp(sender, detected_intent) ==
    IF sender = "user" /\ detected_intent = "order_status"
    THEN LatestOrders ELSE {None}

OutcomesOf(sender, detected_intent, llm_provider) ==
    IF sender = "user" /\ detected_intent = "general"
    THEN ProviderOutcomes(llm_provider) ELSE {NoOutcome}

\* message_text_missing, but testing `message_text is None`, which
\* request.data.get('message', '') never yields
message_text_is_none(message_text) == FALSE

\* `if not message_text`
message_text_missing(message_text) == Len(message_text) = 0

\* max_messages bounds the rows of the model, not the program
SupportMessageView_post_within(max_messages, conversation_id, message_text, sender, query_type) ==
    /\ pre' = Snapshot
    /\ UNCHANGED <<inflight, probe>>
    /\ IF conversation_id # "conv"
       THEN \* SupportConversation.DoesNotExist
            /\ last' = [Response("message", 404) EXCEPT
                            !.sender = sender, !.message = message_text]
            /\ UNCHANGED <<conversation, messages, provider, now>>
       ELSE IF message_text_missing(message_text)
       THEN \* 'Message text is required'
            /\ last' = [Response("message", 400) EXCEPT
                            !.sender = sender, !.message = message_text]
            /\ UNCHANGED <<conversation, messages, provider, now>>
       ELSE LET detected_language == detect_language(message_text)
                detected_intent   == IF query_type = None
                                     THEN detect_intent(message_text, detected_language)
                                     ELSE query_type[1]
                response_language ==
                    determine_response_language(conversation, detected_language)
                saved    == update_conversation(conversation, message_text,
                                                detected_language, detected_intent)
                message  == SupportMessage(sender, message_text, detected_language,
                                           detected_intent, None)
                response == [Response("message", 201) EXCEPT
                                 !.sender = sender,
                                 !.message = message_text,
                                 !.detected_language = detected_language,
                                 !.response_language = response_language,
                                 !.detected_intent = detected_intent]
            IN  /\ Len(messages) + 2 <= max_messages
                /\ IF sender = "null"
                   THEN \* conversation.save() has stored the row; creating the
                        \* message with sender None raises IntegrityError (the
                        \* column is NOT NULL), caught by `except Exception`
                        /\ conversation.message_count < max_messages
                        /\ conversation' = saved
                        /\ messages' = messages
                        /\ last' = [Response("message", 400) EXCEPT
                                        !.sender = sender, !.message = message_text]
                   ELSE IF sender = "user"
                   THEN \E latest_order \in OrdersLookedUp(sender, detected_intent),
                           outcome \in OutcomesOf(sender, detected_intent, provider) :
                        LET reply == ai_reply(detected_intent, message_text,
                                              response_language, latest_order,
                                              provider, outcome)
                            ai_message == SupportMessage("ai", reply.text,
                                              response_language, detected_intent,
                                              Some(reply.confidence))
                        IN  /\ messages' = messages \o <<message, ai_message>>
                            /\ conversation' = [saved EXCEPT !.message_count = @ + 1]
                            /\ last' = [response EXCEPT
                                            !.ai_response = Some(ai_message),
                                            !.path = reply.path,
                                            !.used_fallback = reply.used_fallback,
                                            !.outcome = outcome,
                                            !.prompts =
                                                IF reply.path = "llm"
                                                THEN prompts_sent(message_text,
                                                         response_language, provider)
                                                ELSE None]
                   ELSE /\ messages' = Append(messages, message)
                        /\ conversation' = saved
                        /\ last' = response
                /\ UNCHANGED <<provider, now>>

SupportMessageView_post(conversation_id, message_text, sender, query_type) ==
    SupportMessageView_post_within(MaxMessages, conversation_id, message_text,
                                   sender, query_type)

(***************************************************************************)
(* Escalation lifecycle endpoints (support/urls.py: escalate/, assign/,    *)
(* agent/messages/, resolve/).  Their request validation is in             *)
(* support/serializers.py; the transitions follow the lifecycle rules of   *)
(* the design: open -> escalated -> assigned -> resolved.                  *)
(***************************************************************************)

\* can_escalate, but only a resolved conversation is refused
can_escalate_unless_resolved(conv) == conv.status # "resolved"

\* escalate: allowed while the conversation is still open
can_escalate(conv) == conv.status = "open"

escalate(conv, reason, t) ==
    [conv EXCEPT !.status = "escalated",
                 !.escalated = TRUE,
                 !.escalation_reason = Some(reason),
                 !.escalated_at = Some(t)]

\* can_assign, but an open conversation is accepted too
can_assign_from_open(conv) == conv.status \in {"open", "escalated"}

\* assign: the conversation must already be escalated
can_assign(conv) == conv.status = "escalated"

assign(conv, agent_id) ==
    [conv EXCEPT !.status = "assigned", !.assigned_agent = Some(agent_id)]

\* can_resolve, but a resolved conversation is accepted again
can_resolve_again(conv) == conv.status # "open"

\* resolve: from escalated or assigned
can_resolve(conv) == conv.status \in {"escalated", "assigned"}

resolve(conv, t) ==
    [conv EXCEPT !.status = "resolved",
                 !.resolved_at = Some(t),
                 !.ended_at = Some(t)]

\* agent messages: once escalation has begun and before resolution
can_agent_message(conv) == conv.status \in {"escalated", "assigned"}

\* AssignAgentSerializer: agent_id is a required, non-blank CharField
AssignAgentSerializer_is_valid(agent_id) == agent_id # ""

\* AgentMessageSerializer: message is a CharField (blank rejected, at most
\* 2000 characters) and validate() rejects text that is empty once stripped
AgentMessageSerializer_is_valid(message) ==
    /\ ~Blank(message)
    /\ Len(strip(message)) <= 2000

EscalateConversationView_post(conversation_id, reason) ==
    /\ pre' = Snapshot
    /\ UNCHANGED <<inflight, probe>>
    /\ IF conversation_id # "conv"
       THEN /\ last' = Response("escalate", 404)
            /\ UNCHANGED <<conversation, messages, provider, now>>
       ELSE IF ~can_escalate(conversation)
       THEN /\ last' = [Response("escalate", 400) EXCEPT !.message = reason]
            /\ UNCHANGED <<conversation, messages, provider, now>>
       ELSE /\ conversation' = escalate(conversation, reason, now)
            /\ now' = now + 1
            /\ last' = [Response("escalate", 200) EXCEPT !.message = reason]
            /\ UNCHANGED <<messages, provider>>

AssignAgentView_post(conversation_id, agent_id) ==
    /\ pre' = Snapshot
    /\ UNCHANGED <<inflight, probe>>
    /\ IF conversation_id # "conv"
       THEN /\ last' = Response("assign", 404)
            /\ UNCHANGED <<conversation, messages, provider, now>>
       ELSE IF ~AssignAgentSerializer_is_valid(agent_id) \/ ~can_assign(conversation)
       THEN /\ last' = [Response("assign", 400) EXCEPT !.agent_id = agent_id]
            /\ UNCHANGED <<conversation, messages, provider, now>>
       ELSE /\ conversation' = assign(conversation, agent_id)
            /\ last' = [Response("assign", 200) EXCEPT !.agent_id = agent_id]
            /\ UNCHANGED <<messages, provider, now>>

AgentMessageView_post(conversation_id, message_text) ==
    /\ pre' = Snapshot
    /\ UNCHANGED <<inflight, probe>>
    /\ IF conversation_id # "conv"
       THEN /\ last' = [Response("agent_message", 404) EXCEPT
                            !.sender = "agent", !.message = message_text]
            /\ UNCHANGED <<conversation, messages, provider, now>>
       ELSE IF \/ ~AgentMessageSerializer_is_valid(message_text)
               \/ ~can_agent_message(conversation)
       THEN /\ last' = [Response("agent_message", 400) EXCEPT
                            !.sender = "agent", !.message = message_text]
            /\ UNCHANGED <<conversation, messages, provider, now>>
       ELSE LET text              == strip(message_text)
                detected_language == detect_language(text)
                detected_intent   == detect_intent(text, detected_language)
            IN  /\ Len(messages) + 1 <= MaxMessages
                /\ messages' = Append(messages,
                                   SupportMessage("agent", text, detected_language,
                                                  detected_intent, None))
                /\ conversation' = [conversation EXCEPT !.message_count = @ + 1]
                /\ last' = [Response("agent_message", 201) EXCEPT
                                !.sender = "agent",
                                !.message = text,
                                !.detected_language = detected_language,
                                !.detected_intent = detected_intent]
                /\ UNCHANGED <<provider, now>>

ResolveConversationView_post(conversation_id) ==
    /\ pre' = Snapshot
    /\ UNCHANGED <<inflight, probe>>
    /\ IF conversation_id # "conv"
       THEN /\ last' = Response("resolve", 404)
            /\ UNCHANGED <<conversation, messages, provider, now>>
       ELSE IF ~can_resolve(conversation)
       THEN /\ last' = Response("resolve", 400)
            /\ UNCHANGED <<conversation, messages, provider, now>>
       ELSE /\ conversation' = resolve(conversation, now)
            /\ now' = now + 1
            /\ last' = Response("resolve", 200)
            /\ UNCHANGED <<messages, provider>>

Next ==
    \E conversation_id \in ConversationIds :
        \/ \E request \in Requests :
               SupportMessageView_post(conversation_id, request.message,
                                       request.sender, request.query_type)
        \/ \E reason \in Reasons :
               EscalateConversationView_post(conversation_id, reason)
        \/ \E agent_id \in AgentIds :
               AssignAgentView_post(conversation_id, agent_id)
        \/ \E message_text \in AgentTexts :
               AgentMessageView_post(conversation_id, message_text)
        \/ ResolveConversationView_post(conversation_id)

Spec == Init /\ [][Next]_vars

(***************************************************************************)
(* Properties                                                              *)
(***************************************************************************)

\* the messages stored by the last request
Stored == SubSeq(messages, pre.message_total + 1, Len(messages))

StoredSenders == {Stored[i].sender : i \in 1..Len(Stored)}

\* the last request was a user message that the message endpoint accepted
UserMessageAccepted ==
    /\ last.op = "message"
    /\ last.status_code = 201
    /\ last.sender = "user"

HumanOwned == {"escalated", "assigned", "resolved"}

StatusRank(status) ==
    CASE status = "open"      -> 0
      [] status = "escalated" -> 1
      [] status = "assigned"  -> 2
      [] status = "resolved"  -> 3

\* C1: a user message posted while the conversation is escalated, assigned
\* or resolved gets no automated reply: no ai message is stored and the
\* response has no ai_response, whatever the intent.
C1_AutomationGate ==
    (UserMessageAccepted /\ pre.conversation.status \in HumanOwned)
        => (last.ai_response = None /\ "ai" \notin StoredSenders)

\* C2: a user message classified as escalation on an open conversation
\* gets no AI or template reply for that turn.
C2_EscalationTurnGetsNoReply ==
    (/\ UserMessageAccepted
     /\ pre.conversation.status = "open"
     /\ last.detected_intent = "escalation")
        => (last.ai_response = None /\ "ai" \notin StoredSenders)

\* C3: a user message classified as escalation on an open conversation
\* moves it to status escalated, sets escalated, stores the message text
\* as the reason and stamps escalated_at.
C3_EscalationIntentEscalates ==
    (/\ UserMessageAccepted
     /\ pre.conversation.status = "open"
     /\ last.detected_intent = "escalation")
        => (/\ conversation.status = "escalated"
            /\ conversation.escalated
            /\ conversation.escalation_reason = Some(last.message)
            /\ conversation.escalated_at # None)

\* C4: escalate succeeds on an open conversation, setting status, flag,
\* reason and escalated_at; on an escalated, assigned or resolved
\* conversation it is rejected and every field reads back as before.
C4_Escalate ==
    (last.op = "escalate" /\ last.status_code # 404)
        => IF pre.conversation.status = "open"
           THEN /\ last.status_code = 200
                /\ conversation =
                       [pre.conversation EXCEPT
                            !.status = "escalated",
                            !.escalated = TRUE,
                            !.escalation_reason = Some(last.message),
                            !.escalated_at = Some(now - 1)]
           ELSE /\ last.status_code = 400
                /\ conversation = pre.conversation

\* an escalate call was rejected on a conversation escalated earlier
C4_Witness ==
    /\ last.op = "escalate"
    /\ last.status_code = 400
    /\ conversation.status = "escalated"
    /\ conversation.escalated_at # None

\* C5: assign (with an agent id) succeeds exactly when the status is
\* escalated, setting status assigned and assigned_agent; otherwise it is
\* rejected and the conversation is unchanged; so an assigned conversation
\* has always been escalated before.
C5_Assign ==
    /\ (last.op = "assign" /\ last.status_code # 404 /\ last.agent_id # "")
           => IF pre.conversation.status = "escalated"
              THEN /\ last.status_code = 200
                   /\ conversation =
                          [pre.conversation EXCEPT
                               !.status = "assigned",
                               !.assigned_agent = Some(last.agent_id)]
              ELSE /\ last.status_code = 400
                   /\ conversation = pre.conversation
    /\ conversation.status = "assigned"
           => (conversation.escalated /\ conversation.escalated_at # None)

\* an assign call was rejected on an open conversation
C5_Witness ==
    /\ last.op = "assign"
    /\ last.agent_id = "agent_123"
    /\ last.status_code = 400
    /\ conversation.status = "open"

\* C6: resolve succeeds exactly when the status is escalated or assigned,
\* setting status resolved and stamping resolved_at and ended_at; on a
\* resolved or an open conversation it is rejected and the conversation,
\* its resolved_at and ended_at included, is unchanged.
C6_Resolve ==
    (last.op = "resolve" /\ last.status_code # 404)
        => IF pre.conversation.status \in {"escalated", "assigned"}
           THEN /\ last.status_code = 200
                /\ conversation =
                       [pre.conversation EXCEPT
                            !.status = "resolved",
                            !.resolved_at = Some(now - 1),
                            !.ended_at = Some(now - 1)]
           ELSE /\ last.status_code = 400
                /\ conversation = pre.conversation

\* a resolve call was rejected on a conversation resolved earlier
C6_Witness ==
    /\ last.op = "resolve"
    /\ last.status_code = 400
    /\ conversation.status = "resolved"
    /\ conversation.resolved_at # None

\* C7: every step leaves the status where it is or moves it forward in the
\* order open, escalated, assigned, resolved; resolved is never left.
C7_StatusMonotonic ==
    [][StatusRank(conversation'.status) >= StatusRank(conversation.status)]_vars

\* an escalation-intent user message was accepted on a resolved conversation
C7_Witness ==
    /\ UserMessageAccepted
    /\ last.detected_intent = "escalation"
    /\ pre.conversation.status = "resolved"
    /\ conversation.status = "resolved"

\* C8: a message with sender agent is stored only while the status is
\* escalated or assigned, through every endpoint that accepts a message;
\* a rejected request stores nothing.
C8_AgentMessagesOnlyWhenEscalated ==
    /\ "agent" \in StoredSenders
           => pre.conversation.status \in {"escalated", "assigned"}
    /\ last.status_code # 201 => Stored = <<>>

ProviderFailed(outcome) ==
    \/ provider \notin {"openai", "anthropic", "mock"}
    \/ outcome.kind = "error"
    \/ outcome.kind = "reply" /\ outcome.content = None
    \/ outcome.kind = "reply" /\ outcome.content # None
                              /\ Blank(outcome.content[1])

\* C10: for a general-intent message, when the provider fails, raises,
\* returns no text or is not a known provider, the caller gets the general
\* template in the response language, usedFallback true, confidence 0.5.
C10_FallbackOnFailure ==
    (/\ UserMessageAccepted
     /\ last.path = "llm"
     /\ ProviderFailed(last.outcome))
        => /\ last.used_fallback = Some(TRUE)
           /\ last.ai_response[1].ai_confidence = Some(5)
           /\ last.ai_response[1].message =
                  generate_response("general", last.response_language, <<>>)

(***************************************************************************)
(* SupportMessageView.post step by step, for requests that overlap.  Each  *)
(* worker runs the view on its own instance of the conversation row: it    *)
(* loads the row, changes its instance, and every conversation.save()      *)
(* writes all fields of the instance back.  The lifecycle endpoints stay   *)
(* single steps (transactional read-modify-write).                         *)
(***************************************************************************)

\* requests that overlap: a greeting, a request for a human, and a message
\* posted with sender 'agent'
ConcRequests ==
    { Request(T_hello, "user", None),
      Request(T_human, "user", None),
      Request(T_hello, "agent", None) }

\* the provider accepts the call and never completes it: create() is
\* called without a timeout (llm.py 157-165, 195-203)
HangOutcome == Outcome("hang", None, "", 0)

\* a worker in the middle of a request: where it is (pc), the request, what
\* lines 365-375 computed for it, the row as it loaded it (seen), its
\* instance of the row (conv) and the reply it got
Busy(pc, request, detected_language, detected_intent, seen) ==
    [ pc                |-> pc,
      request           |-> request,
      detected_language |-> detected_language,
      detected_intent   |-> detected_intent,
      response_language |-> determine_response_language(seen, detected_language),
      seen              |-> seen,
      conv              |-> update_conversation(seen, request.message,
                                                detected_language, detected_intent),
      reply             |-> None ]

\* rows a request stores: the message, and the reply to a user message
rows_needed(request) == IF request.sender = "user" THEN 2 ELSE 1

\* rows the worker has still to store
rows_owed(w) ==
    IF inflight[w].pc = "idle" THEN 0
    ELSE IF inflight[w].pc = "save" THEN rows_needed(inflight[w].request)
    ELSE 1

RECURSIVE rows_owed_by(_)
rows_owed_by(workers) ==
    IF workers = {} THEN 0
    ELSE LET w == CHOOSE x \in workers : TRUE
         IN  rows_owed(w) + rows_owed_by(workers \ {w})

\* lines 351-392: load the row, detect, update the instance
SupportMessageView_post_load(w, request) ==
    /\ inflight[w].pc = "idle"
    /\ Len(messages) + rows_owed_by(Workers) + rows_needed(request) <= MaxMessages
    /\ LET detected_language == detect_language(request.message)
           detected_intent   == IF request.query_type = None
                                THEN detect_intent(request.message, detected_language)
                                ELSE request.query_type[1]
       IN  inflight' = [inflight EXCEPT ![w] =
               Busy("save", request, detected_language, detected_intent, conversation)]
    /\ UNCHANGED <<conversation, messages, provider, now, pre, last, probe>>

\* lines 393-402: conversation.save() and the row of the message
SupportMessageView_post_save_message(w) ==
    /\ inflight[w].pc = "save"
    /\ conversation' = inflight[w].conv
    /\ messages' = Append(messages,
           SupportMessage(inflight[w].request.sender, inflight[w].request.message,
                          inflight[w].detected_language,
                          inflight[w].detected_intent, None))
    /\ inflight' = [inflight EXCEPT ![w] =
           IF inflight[w].request.sender = "user"
           THEN [inflight[w] EXCEPT !.pc = "call"]
           ELSE Idle]
    /\ UNCHANGED <<provider, now, pre, last, probe>>

\* the row of the reply (lines 458-465)
ai_message_of(w, reply) ==
    SupportMessage("ai", reply.text, inflight[w].response_language,
                   inflight[w].detected_intent, Some(reply.confidence))

\* lines 409-455: the reply, from the provider or from a template; a call
\* the provider never completes leaves the worker waiting
SupportMessageView_post_call(w) ==
    /\ inflight[w].pc = "call"
    /\ \E latest_order \in OrdersLookedUp("user", inflight[w].detected_intent),
          outcome \in OutcomesOf("user", inflight[w].detected_intent, provider)
                      \cup {HangOutcome} :
           IF outcome = HangOutcome
           THEN /\ inflight[w].detected_intent = "general"
                /\ provider \in {"openai", "anthropic"}
                /\ inflight' = [inflight EXCEPT ![w].pc = "waiting"]
           ELSE inflight' = [inflight EXCEPT ![w] =
                    [inflight[w] EXCEPT
                        !.pc = "reply",
                        !.reply = Some(ai_message_of(w,
                            ai_reply(inflight[w].detected_intent,
                                     inflight[w].request.message,
                                     inflight[w].response_language,
                                     latest_order, provider, outcome)))]]
    /\ UNCHANGED <<conversation, messages, provider, now, pre, last, probe>>

\* lines 458-469: the row of the reply, message_count += 1, conversation.save()
SupportMessageView_post_save_reply(w) ==
    /\ inflight[w].pc = "reply"
    /\ messages' = Append(messages, inflight[w].reply[1])
    /\ conversation' = [inflight[w].conv EXCEPT !.message_count = @ + 1]
    /\ inflight' = [inflight EXCEPT ![w] = Idle]
    /\ UNCHANGED <<provider, now, pre, last, probe>>

ConcNext ==
    \/ \E w \in Workers, request \in ConcRequests :
           SupportMessageView_post_load(w, request)
    \/ \E w \in Workers : SupportMessageView_post_save_message(w)
    \/ \E w \in Workers : SupportMessageView_post_call(w)
    \/ \E w \in Workers : SupportMessageView_post_save_reply(w)
    \/ \E reason \in Reasons : EscalateConversationView_post("conv", reason)
    \/ \E agent_id \in AgentIds : AssignAgentView_post("conv", agent_id)
    \/ ResolveConversationView_post("conv")

SpecConc == Init /\ [][ConcNext]_vars

\* one request at a time, all handled by the same worker
Worker == 1

SerialRequests == ConcRequests \cup ChatRequests

SerialNext ==
    \/ \E request \in SerialRequests : SupportMessageView_post_load(Worker, request)
    \/ SupportMessageView_post_save_message(Worker)
    \/ SupportMessageView_post_call(Worker)
    \/ SupportMessageView_post_save_reply(Worker)

\* the view is synchronous code: once a request is loaded, every statement
\* that can run does run, so each step of the worker is weakly fair; only
\* a call the provider never completes keeps it from its next step
SpecSerialFair ==
    /\ Init
    /\ [][SerialNext]_vars
    /\ WF_vars(SupportMessageView_post_save_message(Worker))
    /\ WF_vars(SupportMessageView_post_call(Worker))
    /\ WF_vars(SupportMessageView_post_save_reply(Worker))

(***************************************************************************)
(* detect_intent and detect_language called on their own                   *)
(***************************************************************************)

Probe(fn, text, language) ==
    [fn |-> fn, text |-> text, language |-> language, result |-> "", done |-> FALSE]

InitProbe(probes) ==
    /\ conversation = NewConversation
    /\ messages = <<>>
    /\ provider = "mock"
    /\ now = 1
    /\ pre = [conversation |-> NewConversation, message_total |-> 0]
    /\ last = Response("create", 201)
    /\ inflight = [w \in Workers |-> Idle]
    /\ probe \in probes

InitIntent ==
    InitProbe({ Probe("detect_intent", text, language) :
                    text \in IntentTexts, language \in IntentLanguages })

call_detect_intent ==
    /\ probe.fn = "detect_intent"
    /\ ~probe.done
    /\ probe' = [probe EXCEPT !.result = detect_intent(probe.text, probe.language),
                              !.done = TRUE]
    /\ UNCHANGED <<conversation, messages, provider, now, pre, last, inflight>>

SpecIntent == InitIntent /\ [][call_detect_intent]_vars

InitLanguage ==
    InitProbe({ Probe("detect_language", text, "") : text \in LanguageTexts })

call_detect_language ==
    /\ probe.fn = "detect_language"
    /\ ~probe.done
    /\ probe' = [probe EXCEPT !.result = detect_language(probe.text),
                              !.done = TRUE]
    /\ UNCHANGED <<conversation, messages, provider, now, pre, last, inflight>>

SpecLanguage == InitLanguage /\ [][call_detect_language]_vars

(***************************************************************************)
(* A chat: user messages only, two exchanges                               *)
(***************************************************************************)

(***************************************************************************)
(* The context builder on a stored history                                 *)
(***************************************************************************)

MaxContextRows == 12

\* "m" and the two digits of the row id
MessageText(i) == <<109, 48 + (i \div 10), 48 + (i % 10)>>

\* a row that the context leaves out
OddKinds ==
    { [sender |-> "agent", query_type |-> "general"],
      [sender |-> "user",  query_type |-> "order_status"],
      [sender |-> "ai",    query_type |-> "escalation"] }

\* the rows of one conversation in the order they were inserted: users and
\* ai alternate with general intent, except at row `odd` and at every
\* `stride`-th row, which are of kind `kind`; `per_tick` rows are created
\* within one tick of the clock
StoredRows(n, odd, stride, kind, per_tick) ==
    [ i \in 1..n |->
        LET is_odd == i = odd \/ (stride > 0 /\ i % stride = 0)
        IN  [ sender     |-> IF is_odd THEN kind.sender
                             ELSE IF i % 2 = 1 THEN "user" ELSE "ai",
              message    |-> MessageText(i),
              query_type |-> IF is_odd THEN kind.query_type ELSE "general",
              created_at |-> (i + per_tick - 1) \div per_tick ] ]

\* a call for no conversation or for a conversation with stored rows, on
\* a database of either tie order
InitContext ==
    InitProbe({ [fn |-> "context", rows |-> rows, tie_order |-> tie_order,
                 result |-> <<>>, done |-> FALSE] :
                    rows \in {None} \cup
                        { Some(StoredRows(n, odd, stride, kind, per_tick)) :
                            n \in 0..MaxContextRows, odd \in 0..3, stride \in {0, 3},
                            kind \in OddKinds, per_tick \in 1..3 },
                    tie_order \in TieOrders })

call_build_conversation_context ==
    /\ probe.fn = "context"
    /\ ~probe.done
    /\ probe' = [probe EXCEPT
                    !.result = _build_conversation_context(probe.rows, probe.tie_order),
                    !.done = TRUE]
    /\ UNCHANGED <<conversation, messages, provider, now, pre, last, inflight>>

SpecContext == InitContext /\ [][call_build_conversation_context]_vars

(***************************************************************************)
(* The prompts generate_reply prepares, for a small token budget           *)
(***************************************************************************)

MaxPromptTokens == 12

\* a call with a message, a response language, no conversation or one of
\* up to two general rows, and a token budget
InitPrompt ==
    InitProbe({ [fn |-> "prompts", text |-> text, language |-> language, rows |-> rows,
                 max_tokens |-> max_tokens, result |-> <<>>, done |-> FALSE] :
                    text \in {T_hello, T_where, T_ml_hello, T_padded, T_card_twice,
                              T_email_phone},
                    language \in {"en", "ml"},
                    rows \in {None} \cup
                        { Some(StoredRows(n, 0, 0, kind, 1)) : n \in 0..2, kind \in OddKinds },
                    max_tokens \in 1..MaxPromptTokens })

call_prepared_prompts ==
    /\ probe.fn = "prompts"
    /\ ~probe.done
    /\ \E tie_order \in TieOrders :
          probe' = [probe EXCEPT
                      !.result = prepared_prompts(probe.text, probe.language, probe.rows,
                                                  tie_order, probe.max_tokens).user_prompt,
                      !.done = TRUE]
    /\ UNCHANGED <<conversation, messages, provider, now, pre, last, inflight>>

SpecPrompt == InitPrompt /\ [][call_prepared_prompts]_vars

(***************************************************************************)
(* generate_response on any intent, language value and context             *)
(***************************************************************************)

\* 'shipped', '2023-12-31' and 'return'
ContextValues ==
    [ status      |-> <<115, 104, 105, 112, 112, 101, 100>>,
      date        |-> <<50, 48, 50, 51, 45, 49, 50, 45, 51, 49>>,
      policy_type |-> <<114, 101, 116, 117, 114, 110>> ]

\* a call with one of the five intents or an unknown one, a language value
\* and a context that fills some of the placeholders
InitResponse ==
    InitProbe({ [fn |-> "generate_response", intent |-> intent, language |-> language,
                 context |-> context, result |-> <<>>, done |-> FALSE] :
                    intent \in {"order_status", "return_refund", "policy", "escalation",
                                "general", "unknown_intent"},
                    language \in IntentLanguages,
                    context \in { [k \in keys |-> ContextValues[k]] :
                                      keys \in SUBSET (DOMAIN ContextValues) } })

call_generate_response ==
    /\ probe.fn = "generate_response"
    /\ ~probe.done
    /\ probe' = [probe EXCEPT
                    !.result = generate_response(probe.intent, probe.language, probe.context),
                    !.done = TRUE]
    /\ UNCHANGED <<conversation, messages, provider, now, pre, last, inflight>>

SpecResponse == InitResponse /\ [][call_generate_response]_vars

(***************************************************************************)
(* _sanitize_prompt on texts with and without PII                          *)
(***************************************************************************)

\* a card number, one with spaces, a long number, a phone number, an email
\* address, two words and the marker itself
SanitizeWords ==
    {  <<49, 50, 51, 52, 53, 54, 55, 56, 49, 50, 51, 52, 53, 54, 55, 56>>,
       <<49, 50, 51, 52, 32, 53, 54, 55, 56, 32, 49, 50, 51, 52, 32, 53, 54, 55, 56>>,
       <<49, 50, 51, 52, 53, 54, 55, 56, 57, 48, 49, 50>>,
       <<57, 56, 55, 54, 53, 52, 51, 50, 49, 48>>,
       <<97, 64, 98, 46, 99, 111>>,
       <<104, 105>>,
       <<98, 99, 100, 101, 102>>,
       <<91, 82, 69, 68, 65, 67, 84, 69, 68, 93>> }

MaxSanitizeWords == 2

\* the texts of n of these words separated by one space
RECURSIVE SanitizeTextsOf(_)
SanitizeTextsOf(n) ==
    IF n = 1 THEN SanitizeWords
    ELSE { w \o <<32>> \o rest : w \in SanitizeWords, rest \in SanitizeTextsOf(n - 1) }

InitSanitize ==
    InitProbe({ [fn |-> "_sanitize_prompt", text |-> text, result |-> <<>>, done |-> FALSE] :
                    text \in UNION { SanitizeTextsOf(n) : n \in 1..MaxSanitizeWords } })

call_sanitize_prompt ==
    /\ probe.fn = "_sanitize_prompt"
    /\ ~probe.done
    /\ probe' = [probe EXCEPT !.result = _sanitize_prompt(probe.text), !.done = TRUE]
    /\ UNCHANGED <<conversation, messages, provider, now, pre, last, inflight>>

SpecSanitize == InitSanitize /\ [][call_sanitize_prompt]_vars

ErrorNext ==
    \E conversation_id \in ConversationIds, r \in ErrorRequests :
        SupportMessageView_post_within(MaxErrorMessages, conversation_id, r.message,
                                       r.sender, r.query_type)

SpecErrors == Init /\ [][ErrorNext]_vars

ChatNext ==
    \E r \in ChatRequests :
        SupportMessageView_post_within(MaxChatMessages, "conv", r.message,
                                       r.sender, r.query_type)

SpecChat == Init /\ [][ChatNext]_vars

(***************************************************************************)
(* Confidence of a successful LLM call                                     *)
(***************************************************************************)

\* the provider signalled that the generation ended by itself
CleanStop(outcome) ==
    /\ outcome.kind = "reply"
    /\ \/ provider = "openai" /\ outcome.finish = "stop"
       \/ provider = "anthropic" /\ outcome.finish = "end_turn"

\* a general-intent user message was answered by generate_reply without
\* the fallback
LlmSucceeded ==
    /\ UserMessageAccepted
    /\ last.path = "llm"
    /\ last.used_fallback = Some(FALSE)

\* C11 as stated: whenever generate_reply returns usedFallback = false, for
\* every configurable provider (openai, anthropic and mock), the confidence
\* is 1.0 on a clean stop and 0.7 otherwise, and no other value.
C11_ConfidenceAsStated ==
    LlmSucceeded =>
        /\ last.ai_response[1].ai_confidence \in {Some(10), Some(7)}
        /\ provider \in {"openai", "anthropic"} =>
               last.ai_response[1].ai_confidence =
                   Some(IF CleanStop(last.outcome) THEN 10 ELSE 7)

\* C11 (amended): whenever generate_reply returns usedFallback = false, the
\* confidence is 1.0 on a clean stop and 0.7 otherwise for openai and
\* anthropic, and always 0.8 for the mock provider.
C11_Confidence ==
    LlmSucceeded =>
        last.ai_response[1].ai_confidence =
            Some(IF provider = "mock" THEN 8
                 ELSE IF CleanStop(last.outcome) THEN 10 ELSE 7)

\* anthropic answered with stop reason end_turn and the reply has confidence 1.0
C11_Witness ==
    /\ LlmSucceeded
    /\ provider = "anthropic"
    /\ last.outcome.finish = "end_turn"
    /\ last.ai_response[1].ai_confidence = Some(10)

(***************************************************************************)
(* The prompt handed to an external provider                               *)
(***************************************************************************)

\* the rows stored before the last request
Earlier ==
    [ i \in 1..pre.message_total |->
        [ sender     |-> messages[i].sender,
          message    |-> messages[i].message,
          query_type |-> messages[i].query_type,
          created_at |-> i ] ]

\* the last request called an external provider
PromptSent ==
    /\ UserMessageAccepted
    /\ last.path = "llm"
    /\ last.prompts # None

\* C13: for a general-intent user message on a conversation that already
\* holds general-intent user/ai messages, the user prompt handed to the
\* provider is the context built from those earlier messages followed by
\* the current message; the context is empty only when there are none.
C13_PromptCarriesContext ==
    PromptSent =>
        last.prompts[1].user_prompt =
            prepared_prompts(last.message, last.response_language,
                             Some(Earlier), "rowid_asc", LLM_MAX_TOKENS).user_prompt

\* the texts the PII patterns match in a text: its email addresses, 10-digit
\* phone numbers, 16-digit card numbers and 12-19 digit runs
PiiOf(text) ==
    { SubSeq(text, r[1] + 1, r[2]) : r \in replacements(text) }

\* C14: the text handed to an external provider never contains an email
\* address, a 10-digit phone number, a 16-digit card number or a 12-19
\* digit run that occurred in the current user message or in the
\* conversation context.
C14_NoPiiSent ==
    PromptSent =>
        \A i \in 0..Len(Earlier) :
            LET text == IF i = 0 THEN last.message ELSE Earlier[i].message
            IN  (i = 0 \/ Earlier[i].query_type = "general") =>
                    PiiOf(text) \cap PiiOf(last.prompts[1].user_prompt) = {}

(***************************************************************************)
(* Response language                                                       *)
(***************************************************************************)

\* C17: for every message in every reachable conversation state the
\* response language is en or ml: the detected language when that is en or
\* ml, and the conversation's stored language (en when none is set) when
\* the detection is mixed.
C17_ResponseLanguage ==
    UserMessageAccepted =>
        /\ last.response_language \in {"en", "ml"}
        /\ last.detected_language \in {"en", "ml"} =>
               last.response_language = last.detected_language
        /\ last.detected_language = "mixed" =>
               last.response_language =
                   (IF pre.conversation.language = "" THEN "en"
                    ELSE pre.conversation.language)

(***************************************************************************)
(* Rejected requests                                                       *)
(***************************************************************************)

\* the step answers with an error and leaves the rows as they were
RejectedWithoutChange ==
    /\ last'.status_code \in {400, 404}
    /\ messages' = messages
    /\ conversation' = conversation

\* C18: a message request with empty text (an agent message: empty after
\* trimming), or for a conversation id that does not exist, is rejected,
\* stores no message and changes no field of the conversation.
C18_RejectedRequestsChangeNothing ==
    [][ /\ \A conversation_id \in ConversationIds, request \in Requests :
              ( /\ conversation_id # "conv" \/ request.message = <<>>
                /\ SupportMessageView_post(conversation_id, request.message,
                                           request.sender, request.query_type) )
                  => RejectedWithoutChange
        /\ \A conversation_id \in ConversationIds, message_text \in AgentTexts :
              ( /\ conversation_id # "conv" \/ Blank(message_text)
                /\ AgentMessageView_post(conversation_id, message_text) )
                  => RejectedWithoutChange ]_vars

\* an empty message was refused on a conversation that already has messages
C18_Witness ==
    /\ last.op = "message"
    /\ last.status_code = 400
    /\ last.message = <<>>
    /\ pre.message_total > 0
    /\ Len(messages) = pre.message_total
    /\ conversation = pre.conversation

(***************************************************************************)
(* Lifecycle timestamps                                                    *)
(***************************************************************************)

\* C20: escalated_at is written exactly once, at the transition into
\* escalated, and resolved_at exactly once, at the transition into
\* resolved; whatever follows, each keeps the value it was first given and
\* is never cleared.
C20_TimestampsWrittenOnce ==
    [][ /\ conversation.escalated_at # None =>
               conversation'.escalated_at = conversation.escalated_at
        /\ conversation.resolved_at # None =>
               conversation'.resolved_at = conversation.resolved_at
        /\ conversation'.escalated_at # conversation.escalated_at =>
               conversation.status = "open" /\ conversation'.status = "escalated"
        /\ conversation'.resolved_at # conversation.resolved_at =>
               conversation.status # "resolved" /\ conversation'.status = "resolved"
        /\ (conversation.status # "escalated" /\ conversation'.status = "escalated") =>
               conversation.escalated_at = None /\ conversation'.escalated_at # None
        /\ (conversation.status # "resolved" /\ conversation'.status = "resolved") =>
               conversation.resolved_at = None /\ conversation'.resolved_at # None
      ]_vars

\* an escalation-intent message was accepted after the conversation was
\* escalated and resolved, and both timestamps are still the first ones
C20_Witness ==
    /\ UserMessageAccepted
    /\ last.detected_intent = "escalation"
    /\ conversation.status = "resolved"
    /\ conversation.escalated_at = Some(1)
    /\ conversation.resolved_at = Some(2)

(***************************************************************************)
(* Intent and language detection                                           *)
(***************************************************************************)

\* str.upper() on one character of the texts: ASCII small letters, the long
\* s (U+017F, capital S) and the dotless i (U+0131, capital I)
Upper(c) ==
    IF c \in 97..122 THEN c - 32
    ELSE IF c = 383 THEN 83
    ELSE IF c = 305 THEN 73
    ELSE c

upper(s) == [i \in 1..Len(s) |-> Upper(s[i])]

\* the intents in priority order, highest first
IntentPriority == <<"escalation", "policy", "return_refund", "order_status">>

\* the language whose keywords are used
KeywordLanguage(language) ==
    IF language \in {"ml", "ML"} THEN "ml" ELSE "en"

\* the highest-priority intent with a keyword in the text, or general
ExpectedIntent(text, language) ==
    LET hits == { p \in 1..Len(IntentPriority) :
                    MatchesIntent(IntentPriority[p], KeywordLanguage(language),
                                  lower(text)) }
    IN  IF Blank(text) \/ hits = {} THEN "general"
        ELSE IntentPriority[CHOOSE p \in hits : \A q \in hits : p <= q]

\* C15: detect_intent returns the highest-priority intent (escalation >
\* policy > return_refund > order_status) that has a keyword for the
\* language in the text, compared case-insensitively, and general when
\* there is none or the text is blank; changing the letter case of the
\* text never changes the result.
C15_IntentByPriority ==
    (probe.fn = "detect_intent" /\ probe.done) =>
        /\ probe.result = ExpectedIntent(probe.text, probe.language)
        /\ detect_intent(upper(probe.text), probe.language) = probe.result
        /\ detect_intent(lower(probe.text), probe.language) = probe.result

\* a character of the Malayalam block U+0D00..U+0D7F, ZWNJ or ZWJ
ScriptChar(c) == c \in 3328..3455 \/ c = 8204 \/ c = 8205

\* A-Z or a-z
LatinLetter(c) == c \in 65..90 \/ c \in 97..122

HasScript(text) == \E i \in 1..Len(text) : ScriptChar(text[i])

HasLatin(text) == \E i \in 1..Len(text) : LatinLetter(text[i])

\* C16: detect_language is total and returns mixed exactly when the text
\* has a Malayalam-block (or ZWJ/ZWNJ) character and an ASCII letter, ml
\* exactly when it has such script characters and no ASCII letter, and en
\* in every other case.
C16_LanguageByScript ==
    (probe.fn = "detect_language" /\ probe.done) =>
        /\ probe.result \in {"en", "ml", "mixed"}
        /\ probe.result = "mixed" <=> (HasScript(probe.text) /\ HasLatin(probe.text))
        /\ probe.result = "ml" <=> (HasScript(probe.text) /\ ~HasLatin(probe.text))
        /\ probe.result = "en" <=> ~HasScript(probe.text)

\* a joiner next to a capital letter was detected as mixed
C16_Witness ==
    /\ probe.fn = "detect_language"
    /\ probe.done
    /\ probe.text = <<8205, 90>>
    /\ probe.result = "mixed"

(***************************************************************************)
(* Overlapping requests                                                    *)
(***************************************************************************)

\* the worker handles a user message that is no request for a human and
\* that it loaded while the conversation was open and not escalated
PassedGate(w) ==
    /\ inflight[w].pc # "idle"
    /\ inflight[w].request.sender = "user"
    /\ inflight[w].detected_intent # "escalation"
    /\ inflight[w].seen.status = "open"
    /\ ~inflight[w].seen.escalated

\* C12: every user message accepted on an open conversation with a
\* non-escalation intent is eventually answered; no request waits on the
\* provider forever.
C12_EventuallyAnswered ==
    (PassedGate(Worker) /\ inflight[Worker].pc = "call")
        ~> (inflight[Worker].pc \in {"reply", "idle"})

\* C19: when an escalation and another user message interleave, the
\* message cannot pass the automation gate on a stale view of the status:
\* no automated reply is stored once the escalation has been committed.
C19_NoReplyOnStaleStatus ==
    [][ \A w \in Workers :
            (PassedGate(w) /\ SupportMessageView_post_save_reply(w))
                => (conversation.status = "open" /\ ~conversation.escalated) ]_vars

(***************************************************************************)
(* Frame of a message request                                              *)
(***************************************************************************)

\* the lifecycle fields of a conversation row
Lifecycle(conv) ==
    [ status            |-> conv.status,
      escalated         |-> conv.escalated,
      escalation_reason |-> conv.escalation_reason,
      assigned_agent    |-> conv.assigned_agent,
      escalated_at      |-> conv.escalated_at,
      resolved_at       |-> conv.resolved_at,
      ended_at          |-> conv.ended_at ]

\* C21: processing a message whose intent is not escalation changes no
\* lifecycle field of the conversation (status, escalated flag, escalation
\* reason, assigned agent, escalated_at, resolved_at, ended_at); only the
\* message counter and the language may change.
C21_MessageFrame ==
    (/\ last.op = "message"
     /\ last.status_code = 201
     /\ last.detected_intent # "escalation")
        => Lifecycle(conversation) = Lifecycle(pre.conversation)

\* an order_status turn was answered on an open conversation, which is
\* still open
C21_Witness ==
    /\ UserMessageAccepted
    /\ last.detected_intent = "order_status"
    /\ pre.conversation.status = "open"
    /\ conversation.status = "open"
    /\ conversation.message_count = pre.conversation.message_count + 2

(***************************************************************************)
(* Conversation context                                                    *)
(***************************************************************************)

\* a stored message that belongs in the context
Qualifies(row) == row.query_type = "general" /\ row.sender \in {"user", "ai"}

\* "User: <message>" or "Assistant: <message>"
ExpectedLine(row) ==
    (IF row.sender = "user" THEN <<85, 115, 101, 114, 58, 32>>
     ELSE <<65, 115, 115, 105, 115, 116, 97, 110, 116, 58, 32>>) \o row.message

\* the non-empty lines of a text
RECURSIVE LinesFrom(_, _)
LinesFrom(text, line) ==
    IF text = <<>> THEN (IF line = <<>> THEN <<>> ELSE <<line>>)
    ELSE IF Head(text) = 10
         THEN (IF line = <<>> THEN <<>> ELSE <<line>>) \o LinesFrom(Tail(text), <<>>)
         ELSE LinesFrom(Tail(text), Append(line, Head(text)))

Lines(text) == LinesFrom(text, <<>>)

ContextBuilt == probe.fn = "context" /\ probe.done

\* C22: the context built for a conversation contains only messages whose
\* stored intent is general and whose sender is user or ai, never an agent
\* message and never a message with another intent, and it is the empty
\* string when the conversation is absent or has no such message.
C22_ContextOnlyGeneralUserAi ==
    ContextBuilt =>
        IF probe.rows = None THEN probe.result = <<>>
        ELSE LET rows == probe.rows[1]
             IN  /\ \A k \in 1..Len(Lines(probe.result)) :
                       \E i \in 1..Len(rows) :
                           /\ Qualifies(rows[i])
                           /\ Lines(probe.result)[k] = ExpectedLine(rows[i])
                 /\ \A i \in 1..Len(rows) :
                       ~Qualifies(rows[i]) => ~Contains(rows[i].message, probe.result)
                 /\ (\A i \in 1..Len(rows) : ~Qualifies(rows[i])) => probe.result = <<>>

\* a context was built from a history that holds qualifying messages and
\* also an agent message with general intent
C22_Witness ==
    /\ ContextBuilt
    /\ probe.rows # None
    /\ probe.result # <<>>
    /\ \E i \in 1..Len(probe.rows[1]) :
          probe.rows[1][i].sender = "agent" /\ probe.rows[1][i].query_type = "general"

\* C23: the context holds at most 10 messages, the 10 most recently created
\* qualifying messages of the conversation, oldest first in the
\* conversation's total order (creation time, ties broken by insertion
\* sequence), for any number of stored messages.
C23_LastTenOldestFirst ==
    (ContextBuilt /\ probe.rows # None) =>
        LET qualifying == SelectSeq(probe.rows[1], Qualifies)
            n == Len(qualifying)
            expected == IF n <= 10 THEN qualifying ELSE SubSeq(qualifying, n - 9, n)
        IN  Lines(probe.result) = [k \in 1..Len(expected) |-> ExpectedLine(expected[k])]

(***************************************************************************)
(* Prompt budget                                                           *)
(***************************************************************************)

\* the first n characters of a text, the whole text when it is shorter
Take(text, n) == IF Len(text) <= n THEN text ELSE SubSeq(text, 1, n)

PromptBuilt == probe.fn = "prompts" /\ probe.done

\* the sanitized message, before it is cut
SanitizedMessage == _sanitize_prompt(probe.text)

\* the sanitized context in front of the message; the histories hold rows
\* of distinct timestamps, which come back in one order only
SanitizedContext ==
    IF probe.rows = None THEN <<>>
    ELSE _sanitize_prompt(_build_conversation_context(probe.rows, "rowid_asc"))

\* context + "Customer: " + the cut message + "\n\nAssistant:"
Composed ==
    SanitizedContext \o <<67, 117, 115, 116, 111, 109, 101, 114, 58, 32>>
        \o Take(SanitizedMessage, 4 * probe.max_tokens)
        \o <<10, 10, 65, 115, 115, 105, 115, 116, 97, 110, 116, 58>>

\* C24: for every user message and every context length, the user prompt
\* handed to the provider has at most 4 * max_tokens characters: the
\* sanitized message is cut to that budget first, the composed prompt
\* (context + message) is cut to it again, and a prompt already within the
\* budget is sent unchanged.
C24_PromptWithinBudget ==
    PromptBuilt =>
        /\ Len(probe.result) <= 4 * probe.max_tokens
        /\ probe.result = Take(Composed, 4 * probe.max_tokens)
        /\ Len(Composed) <= 4 * probe.max_tokens => probe.result = Composed

\* a message longer than the budget was cut, and the prompt composed from a
\* non-empty context and the cut message was cut again
C24_Witness ==
    /\ PromptBuilt
    /\ SanitizedContext # <<>>
    /\ Len(SanitizedMessage) > 4 * probe.max_tokens
    /\ Len(Composed) > 4 * probe.max_tokens
    /\ Len(probe.result) = 4 * probe.max_tokens

\* a prompt with a context was within the budget and was sent as composed
C24_WitnessUnchanged ==
    /\ PromptBuilt
    /\ SanitizedContext # <<>>
    /\ probe.result = Composed

(***************************************************************************)
(* Conversation language                                                   *)
(***************************************************************************)

\* C25: on the first message of a conversation (message count 0) the
\* conversation language is set to the language detected for that message;
\* on every later message it is set to the detected language only when the
\* detection is not mixed, and is left unchanged when it is mixed.
C25_LanguageUpdate ==
    (last.op = "message" /\ last.status_code = 201) =>
        conversation.language =
            IF pre.conversation.message_count = 0 THEN last.detected_language
            ELSE IF last.detected_language # "mixed" THEN last.detected_language
            ELSE pre.conversation.language

\* a later message was detected as mixed on a conversation whose language
\* an earlier message had set to Malayalam, and the language stayed
C25_Witness ==
    /\ UserMessageAccepted
    /\ pre.conversation.message_count > 0
    /\ last.detected_language = "mixed"
    /\ pre.conversation.language = "ml"
    /\ conversation.language = "ml"

\* C26: in every reachable state the conversation's preferred language is
\* one of the supported values en or ml; no sequence of messages, not even
\* a first message detected as mixed, stores another value in it.
C26_LanguageSupported == conversation.language \in {"en", "ml"}

(***************************************************************************)
(* Template responses                                                      *)
(***************************************************************************)

ResponseGenerated == probe.fn = "generate_response" /\ probe.done

\* the language of the template generate_response chooses: English for a
\* language value that is not supported
TemplateLanguage == IF probe.language \in {"en", "ml"} THEN probe.language ELSE "en"

\* the template chosen: the general one for an unknown intent
ChosenTemplate ==
    IF probe.intent \in DOMAIN templates[TemplateLanguage]
    THEN templates[TemplateLanguage][probe.intent]
    ELSE templates[TemplateLanguage]["general"]

\* the default filler of a placeholder, written in a language
Filler(language, placeholder) ==
    IF language = "en"
    THEN [ status      |-> default_status_en,
           date        |-> default_date_en,
           policy_type |-> default_policy_type_en ][placeholder]
    ELSE [ status      |-> default_status_ml,
           date        |-> default_date_ml,
           policy_type |-> default_policy_type_ml ][placeholder]

\* C27: generate_response never raises and never returns text with an
\* unfilled placeholder: for every intent, language value (supported or
\* not) and context, each placeholder absent from the context is filled
\* with the default filler written in the language of the template that
\* was chosen, and an unknown intent renders the general template.
C27_PlaceholdersFilled ==
    ResponseGenerated =>
        /\ probe.result =
              Concat([p \in 1..Len(ChosenTemplate) |->
                        IF ChosenTemplate[p].ph = "" THEN ChosenTemplate[p].lit
                        ELSE IF ChosenTemplate[p].ph \in DOMAIN probe.context
                             THEN probe.context[ChosenTemplate[p].ph]
                             ELSE Filler(TemplateLanguage, ChosenTemplate[p].ph)])
        /\ \A k \in DOMAIN placeholder_text : ~Contains(placeholder_text[k], probe.result)

(***************************************************************************)
(* Sanitizing changes the PII matches only                                 *)
(***************************************************************************)

Sanitized == probe.fn = "_sanitize_prompt" /\ probe.done

\* the 1-based positions of a text that lie in a span one of the PII
\* patterns matched
InMatch(text, i) ==
    \E r \in replacements(text) : r[1] < i /\ i <= r[2]

\* the text with every maximal matched stretch replaced by one marker and
\* every other character kept
RECURSIVE RedactedFrom(_, _)
RedactedFrom(text, i) ==
    IF i > Len(text) THEN <<>>
    ELSE (IF ~InMatch(text, i) THEN <<text[i]>>
          ELSE IF i = 1 \/ ~InMatch(text, i - 1) THEN REDACTED
          ELSE <<>>) \o RedactedFrom(text, i + 1)

\* C28: _sanitize_prompt changes nothing but the PII matches: every
\* character of the input outside all matched spans appears unchanged and
\* in order in the output, each matched span, also one matched by two
\* patterns at once (16 contiguous digits), is replaced by exactly one
\* [REDACTED] marker, and sanitizing an already sanitized text changes
\* nothing.
C28_OnlyMatchesReplaced ==
    Sanitized =>
        /\ probe.result = RedactedFrom(probe.text, 1)
        /\ _sanitize_prompt(probe.result) = probe.result

(***************************************************************************)
(* The message counter                                                     *)
(***************************************************************************)

NoRequestInFlight == \A w \in Workers : inflight[w] = Idle

\* C29: whenever no request is in flight, the conversation's message_count
\* equals the number of messages stored for the conversation (user, ai and
\* agent), after any sequence of message requests, including requests that
\* ended in an error response.
C29_CountMatchesMessages ==
    NoRequestInFlight => conversation.message_count = Len(messages)

(***************************************************************************)
(* Interleaved requests                                                    *)
(***************************************************************************)

\* the step is a conversation.save() of the message request of worker w
SavesConversation(w) ==
    SupportMessageView_post_save_message(w) \/ SupportMessageView_post_save_reply(w)

\* C30: interleaved requests on the same conversation lose no update: a
\* message request that loaded the conversation before another request
\* committed a change (an escalation, an assignment, a resolution or a
\* message-count increment) does not write its stale copy over that change
\* when it saves; a committed status is never reverted and no counter
\* increment is lost.
C30_NoLostUpdate ==
    [][ \A w \in Workers :
            SavesConversation(w) =>
                /\ conversation'.status = conversation.status
                /\ conversation'.assigned_agent = conversation.assigned_agent
                /\ conversation'.escalated_at = conversation.escalated_at
                /\ conversation'.resolved_at = conversation.resolved_at
                /\ conversation'.ended_at = conversation.ended_at
                /\ conversation.escalated => conversation'.escalated
                /\ conversation'.message_count = conversation.message_count + 1 ]_vars

====
